---- MODULE Spec2Model ----
(***************************************************************************)
(* A model of hive_plots_d3_viz.js: the kwarg mapping utilities            *)
(* (normalizeEdgeKwargs, normalizeNodeKwargs, linestyleToDasharray,        *)
(* cmapToD3Interpolator), the renderers plotEdges, plotAxes, plotNodes and *)
(* plotLabels, and the entry point visualizeHivePlot with its fetches.     *)
(*                                                                         *)
(* JavaScript values are tagged records: [t |-> "num", v |-> n],           *)
(* [t |-> "str", v |-> s], [t |-> "arr", v |-> <<...>>], [t |-> "undef"],  *)
(* [t |-> "null"], [t |-> "fn", v |-> name] (a function value, identified  *)
(* by the name it is bound to) and [t |-> "proto", v |-> key] (a member    *)
(* inherited from Object.prototype).  A plain JavaScript object is a       *)
(* function from its own keys to values; objects that can be aliased live  *)
(* in a heap (a sequence of objects, a reference being an index).          *)
(***************************************************************************)
EXTENDS Integers, Sequences, FiniteSets, TLC

VARIABLES
    nKind,      \* which normalizer the harness calls: "edge", "node" or "none"
    nRaw,       \* the raw style dictionary as it was before the first call
    nHeap,      \* the heap of objects
    nArgs,      \* the references passed to the successive calls
    nRets,      \* the references the successive calls returned
    lkFn,       \* which lookup the harness calls: "linestyle", "cmap" or "none"
    lkIn,       \* the argument of the lookup
    lkOut,      \* the value the lookup returned
    lkDone,     \* whether the lookup has returned
    data,       \* the HivePlotDocument handed to the renderer
    svg,        \* the draw surface: the sequence of appended children
    threw,      \* whether the renderer ended by raising
    pc,         \* the renderer call: "ready" (not yet made), "done", "off" (none)
    opts,       \* the options object handed to plotLabels or to render
    container,  \* the container element: the surfaces mounted in it, in order
    surfaces,   \* per visualizeHivePlot invocation, the children of its surface
    inv         \* per visualizeHivePlot invocation, its arguments and progress

vars == <<nKind, nRaw, nHeap, nArgs, nRets, lkFn, lkIn, lkOut, lkDone,
          data, svg, threw, pc, opts, container, surfaces, inv>>

normVars == <<nKind, nRaw, nHeap, nArgs, nRets>>
lookupVars == <<lkFn, lkIn, lkOut, lkDone>>
edgeVars == <<data, svg, threw, pc>>
vizVars == <<opts, container, surfaces, inv>>

-----------------------------------------------------------------------------
(* Bounds of the model.                                                    *)

\* raw style values are drawn from Num(1) .. Num(NumStyleVals)
NumStyleVals == 2
\* the harness applies a normalizer to its own result up to MaxCalls times
MaxCalls == 2
\* an edge group of a generated document holds up to MaxEdges edges
MaxEdges == 2

-----------------------------------------------------------------------------
(* JavaScript values and objects.                                          *)

Num(n) == [t |-> "num", v |-> n]
Str(s) == [t |-> "str", v |-> s]
Arr(s) == [t |-> "arr", v |-> s]
Fn(name) == [t |-> "fn", v |-> name]
Bool(b) == [t |-> "bool", v |-> b]
Undefined == [t |-> "undef"]
Null == [t |-> "null"]

\* Members an object literal inherits from Object.prototype (five of them):
\* map[k] and (k in map) find them although the literal does not list them.
ObjectPrototypeKeys ==
    {"constructor", "toString", "valueOf", "hasOwnProperty", "__proto__"}

EmptyObject == [k \in {} |-> Undefined]

\* obj[k]: an own property, else an inherited one, else undefined.
GetProp(obj, k) ==
    IF k \in DOMAIN obj THEN obj[k]
    ELSE IF k \in ObjectPrototypeKeys THEN [t |-> "proto", v |-> k]
    ELSE Undefined

\* k in obj: own or inherited.
HasProp(obj, k) == k \in DOMAIN obj \/ k \in ObjectPrototypeKeys

\* a ?? b
Nullish(a, b) == IF a = Undefined \/ a = Null THEN b ELSE a

\* ToBoolean(v)
Truthy(v) ==
    CASE v.t = "undef" -> FALSE
      [] v.t = "null" -> FALSE
      [] v.t = "num" -> v.v # 0
      [] v.t = "str" -> v.v # ""
      [] v.t = "bool" -> v.v
      [] OTHER -> TRUE

\* A slip: ?? for ||, only undefined and null give way to b.
OrElse_nullish(a, b) == IF a \in {Undefined, Null} THEN b ELSE a

\* a || b
OrElse(a, b) == IF Truthy(a) THEN a ELSE b

IsArray(v) == v.t = "arr"

\* a[i] for a 0-based index i: undefined outside the array.
ArrayAt(a, i) == IF i >= 0 /\ i < Len(a.v) THEN a.v[i + 1] ELSE Undefined

\* obj.k = v and delete obj.k, on a heap object.
Put(obj, k, v) == [x \in DOMAIN obj \cup {k} |-> IF x = k THEN v ELSE obj[x]]
Del(obj, k) == [x \in DOMAIN obj \ {k} |-> obj[x]]
SetProp(h, ref, k, v) == [h EXCEPT ![ref] = Put(@, k, v)]
DeleteProp(h, ref, k) == [h EXCEPT ![ref] = Del(@, k)]

-----------------------------------------------------------------------------
(* Kwarg mapping utilities.                                                *)

\* A slip: const normalized = kwargs (no copy is made).
ObjectSpread_alias(h, ref) == [heap |-> h, ref |-> ref]

\* { ...kwargs }: a fresh object holding the own properties of kwargs.
ObjectSpread(h, ref) == [heap |-> Append(h, h[ref]), ref |-> Len(h) + 1]

\* A slip: the guard !(canon in normalized) is dropped, the alias overrides.
ResolveAlias_overrides(h, ref, alias, canon) ==
    IF HasProp(h[ref], alias)
    THEN DeleteProp(SetProp(h, ref, canon, GetProp(h[ref], alias)), ref, alias)
    ELSE h

\* if (alias in normalized && !(canon in normalized)) {
\*     normalized[canon] = normalized[alias]; delete normalized[alias]; }
ResolveAlias(h, ref, alias, canon) ==
    IF HasProp(h[ref], alias) /\ ~HasProp(h[ref], canon)
    THEN DeleteProp(SetProp(h, ref, canon, GetProp(h[ref], alias)), ref, alias)
    ELSE h

\* A slip: the second block writes normalized.lw instead of normalized.linestyle.
normalizeEdgeKwargs_wrongkey(h, kwargs) ==
    LET c == ObjectSpread(h, kwargs)
        normalized == c.ref
        h1 == ResolveAlias(c.heap, normalized, "lw", "linewidth")
        h2 == IF HasProp(h1[normalized], "ls") /\ ~HasProp(h1[normalized], "linestyle")
              THEN DeleteProp(SetProp(h1, normalized, "lw",
                                      GetProp(h1[normalized], "ls")), normalized, "ls")
              ELSE h1
    IN  [heap |-> h2, ret |-> normalized]

normalizeEdgeKwargs(h, kwargs) ==
    LET c == ObjectSpread(h, kwargs)
        normalized == c.ref
        h1 == ResolveAlias(c.heap, normalized, "lw", "linewidth")
        h2 == ResolveAlias(h1, normalized, "ls", "linestyle")
    IN  [heap |-> h2, ret |-> normalized]

\* The color aliases of normalizeNodeKwargs: facecolor, else color, else c.
\* A slip: the branches are tested in the order c, color, facecolor.
ResolveFill_reversed(h, ref) ==
    IF HasProp(h[ref], "c")
    THEN DeleteProp(SetProp(h, ref, "_fill", GetProp(h[ref], "c")), ref, "c")
    ELSE IF HasProp(h[ref], "color")
    THEN DeleteProp(SetProp(h, ref, "_fill", GetProp(h[ref], "color")), ref, "color")
    ELSE IF HasProp(h[ref], "facecolor")
    THEN DeleteProp(SetProp(h, ref, "_fill", GetProp(h[ref], "facecolor")),
                    ref, "facecolor")
    ELSE h

ResolveFill(h, ref) ==
    IF HasProp(h[ref], "facecolor")
    THEN DeleteProp(SetProp(h, ref, "_fill", GetProp(h[ref], "facecolor")),
                    ref, "facecolor")
    ELSE IF HasProp(h[ref], "color")
    THEN DeleteProp(SetProp(h, ref, "_fill", GetProp(h[ref], "color")), ref, "color")
    ELSE IF HasProp(h[ref], "c")
    THEN DeleteProp(SetProp(h, ref, "_fill", GetProp(h[ref], "c")), ref, "c")
    ELSE h

normalizeNodeKwargs(h, kwargs) ==
    LET c == ObjectSpread(h, kwargs)
        normalized == c.ref
        h1 == ResolveFill(c.heap, normalized)
        h2 == ResolveAlias(h1, normalized, "size", "s")
        h3 == ResolveAlias(h2, normalized, "edgecolors", "edgecolor")
    IN  [heap |-> h3, ret |-> normalized]

-----------------------------------------------------------------------------
(* The normalizer harness: one raw dictionary, a normalizer applied to it  *)
(* and then to its own result.                                             *)

StyleVals == {Num(i) : i \in 1..NumStyleVals}

EdgeRawKeys == {"lw", "linewidth", "ls", "linestyle", "cmap", "color"}
NodeRawKeys == {"c", "color", "facecolor", "size", "s", "edgecolors", "edgecolor",
                "cmap"}

RawDicts(keys) == UNION {[K -> StyleVals] : K \in SUBSET keys}

NormIdle ==
    /\ nKind = "none"
    /\ nRaw = EmptyObject
    /\ nHeap = <<>>
    /\ nArgs = <<>>
    /\ nRets = <<>>

NormInputs ==
    /\ nKind \in {"edge", "node"}
    /\ nRaw \in RawDicts(IF nKind = "edge" THEN EdgeRawKeys ELSE NodeRawKeys)
    /\ nHeap = <<nRaw>>
    /\ nArgs = <<>>
    /\ nRets = <<>>

\* the object the next call is given: the raw dictionary, then the last result
NextArg == IF nRets = <<>> THEN 1 ELSE nRets[Len(nRets)]

CallNormalizeEdgeKwargs ==
    /\ nKind = "edge"
    /\ Len(nRets) < MaxCalls
    /\ LET r == normalizeEdgeKwargs(nHeap, NextArg)
       IN  /\ nHeap' = r.heap
           /\ nArgs' = Append(nArgs, NextArg)
           /\ nRets' = Append(nRets, r.ret)
    /\ UNCHANGED <<nKind, nRaw, lookupVars, edgeVars, vizVars>>

CallNormalizeNodeKwargs ==
    /\ nKind = "node"
    /\ Len(nRets) < MaxCalls
    /\ LET r == normalizeNodeKwargs(nHeap, NextArg)
       IN  /\ nHeap' = r.heap
           /\ nArgs' = Append(nArgs, NextArg)
           /\ nRets' = Append(nRets, r.ret)
    /\ UNCHANGED <<nKind, nRaw, lookupVars, edgeVars, vizVars>>


-----------------------------------------------------------------------------
(* Lookup tables.                                                          *)

\* The property key a value is converted to when it indexes an object.
ToPropertyKey(v) ==
    CASE v.t = "str" -> v.v
      [] v.t = "num" -> ToString(v.v)
      [] v.t = "null" -> "null"
      [] OTHER -> "undefined"

\* const map = { "-": null, "solid": null, "--": "5,5", ... }
LinestyleMap ==
    [k \in {"-", "solid", "--", "dashed", ":", "dotted", "-.", "dashdot"} |->
        CASE k \in {"-", "solid"} -> Null
          [] k \in {"--", "dashed"} -> Str("5,5")
          [] k \in {":", "dotted"} -> Str("2,2")
          [] k \in {"-.", "dashdot"} -> Str("5,2,2,2")]

\* return map[ls] ?? null
linestyleToDasharray(ls) == Nullish(GetProp(LinestyleMap, ToPropertyKey(ls)), Null)

\* The names bound to the d3 interpolator of the same name (interpolate<Name>).
CmapSameName ==
    {"Blues", "Greens", "Greys", "Oranges", "Purples", "Reds", "BuGn", "BuPu",
     "GnBu", "OrRd", "PuBu", "PuBuGn", "PuRd", "RdPu", "YlGn", "YlGnBu", "YlOrBr",
     "YlOrRd", "BrBG", "PRGn", "PiYG", "PuOr", "RdBu", "RdGy", "RdYlBu", "RdYlGn",
     "Spectral"}

\* The lower-case names, bound to the capitalised d3 interpolator.
CmapLowerCase ==
    {"viridis", "plasma", "inferno", "magma", "cividis", "warm", "cool", "turbo",
     "rainbow"}

\* A slip: the plasma entry was pasted from the viridis line and kept its value.
D3Interpolator_pasted(k) ==
    CASE k \in {"viridis", "plasma"} -> Fn("Viridis")
      [] k = "coolwarm" -> Fn("RdBu")
      [] OTHER -> Fn(k)

\* d3.interpolate<X>, identified by X.
D3Interpolator(k) ==
    CASE k = "viridis" -> Fn("Viridis")
      [] k = "plasma" -> Fn("Plasma")
      [] k = "inferno" -> Fn("Inferno")
      [] k = "magma" -> Fn("Magma")
      [] k = "cividis" -> Fn("Cividis")
      [] k = "warm" -> Fn("Warm")
      [] k = "cool" -> Fn("Cool")
      [] k = "turbo" -> Fn("Turbo")
      [] k = "rainbow" -> Fn("Rainbow")
      [] k = "coolwarm" -> Fn("RdBu")
      [] OTHER -> Fn(k)

\* const map = { "viridis": d3.interpolateViridis, ..., "coolwarm": d3.interpolateRdBu, ... }
CmapMap == [k \in CmapSameName \cup CmapLowerCase \cup {"coolwarm"} |-> D3Interpolator(k)]

\* return map[cmapName] ?? d3.interpolateViridis
cmapToD3Interpolator(cmapName) ==
    Nullish(GetProp(CmapMap, ToPropertyKey(cmapName)), Fn("Viridis"))

-----------------------------------------------------------------------------
(* The lookup harness: one argument, one call of one of the two lookups.   *)

LookupStrings ==
    DOMAIN LinestyleMap \cup DOMAIN CmapMap \cup ObjectPrototypeKeys
        \cup {"unknown", "not_a_cmap", ""}

LookupInputs == {Undefined} \cup {Str(s) : s \in LookupStrings}

LookupIdle ==
    /\ lkFn = "none"
    /\ lkIn = Undefined
    /\ lkOut = Undefined
    /\ lkDone = FALSE

LookupCall ==
    /\ lkFn \in {"linestyle", "cmap"}
    /\ lkIn \in LookupInputs
    /\ lkOut = Undefined
    /\ lkDone = FALSE

CallLinestyleToDasharray ==
    /\ lkFn = "linestyle"
    /\ ~lkDone
    /\ lkOut' = linestyleToDasharray(lkIn)
    /\ lkDone' = TRUE
    /\ UNCHANGED <<lkFn, lkIn, normVars, edgeVars, vizVars>>

CallCmapToD3Interpolator ==
    /\ lkFn = "cmap"
    /\ ~lkDone
    /\ lkOut' = cmapToD3Interpolator(lkIn)
    /\ lkDone' = TRUE
    /\ UNCHANGED <<lkFn, lkIn, normVars, edgeVars, vizVars>>


-----------------------------------------------------------------------------
(* The d3 calls plotEdges makes.  Numbers are integers: Num(n) stands for  *)
(* n tenths, so that 0.5 is Num(5) and 1.5 is Num(15).                     *)

Obj(f) == [t |-> "obj", v |-> f]

\* a curve of an edge group: an array of coordinate pairs, identified by id
Curve(id) == [t |-> "curve", v |-> id]

RECURSIVE Gcd(_, _)
Gcd(a, b) == IF b = 0 THEN a ELSE Gcd(b, a % b)

Abs(n) == IF n < 0 THEN -n ELSE n

\* interpolator(num / den): the color the interpolator gives for a ratio
Interpolated(interp, num, den) ==
    LET g == Gcd(Abs(num), Abs(den))
        sgn == IF den < 0 THEN -1 ELSE 1
    IN  IF num = 0 THEN [t |-> "color", interp |-> interp, num |-> 0, den |-> 1]
        ELSE [t |-> "color", interp |-> interp,
              num |-> sgn * (num \div g), den |-> sgn * (den \div g)]

\* interpolator(NaN)
InterpolatedNaN(interp) == [t |-> "color", interp |-> interp, nan |-> TRUE]

NumsOf(a) == {a.v[i].v : i \in {j \in DOMAIN a.v : a.v[j].t = "num"}}
SetMin(S) == CHOOSE m \in S : \A x \in S : m <= x
SetMax(S) == CHOOSE m \in S : \A x \in S : m >= x

\* d3.extent(array): [min, max] of the numbers of the whole array
Extent(a) ==
    IF NumsOf(a) = {} THEN Arr(<<Undefined, Undefined>>)
    ELSE Arr(<<Num(SetMin(NumsOf(a))), Num(SetMax(NumsOf(a)))>>)

\* d3.scaleSequential(interpolator).domain(domain)(x): undefined (the scale's
\* "unknown") for a missing or non-numeric x; interpolator(0) for an empty
\* domain interval; else interpolator((x - x0) / (x1 - x0)), unclamped.
ScaleSequential(interp, domain, x) ==
    LET x0 == ArrayAt(domain, 0)
        x1 == ArrayAt(domain, 1)
    IN  IF x.t # "num" THEN Undefined
        ELSE IF x0.t # "num" \/ x1.t # "num" THEN InterpolatedNaN(interp)
        ELSE IF x0.v = x1.v THEN Interpolated(interp, 0, 1)
        ELSE Interpolated(interp, x.v - x0.v, x1.v - x0.v)

\* A slip: the value goes to setAttribute as it is, which writes its string.
Attr_stringifies(el, name, value) ==
    [el EXCEPT !.attrs = Put(@, name, IF value = Undefined THEN Str("undefined")
                                      ELSE IF value = Null THEN Str("null")
                                      ELSE value)]

\* selection.attr(name, value): a null or undefined value removes the attribute
Attr(el, name, value) ==
    IF value = Undefined \/ value = Null
    THEN [el EXCEPT !.attrs = Del(@, name)]
    ELSE [el EXCEPT !.attrs = Put(@, name, value)]

\* svg.append(tag).datum(d)
NewElement(tag, d) == [tag |-> tag, datum |-> d, attrs |-> EmptyObject]

GetAttr(el, name) == IF name \in DOMAIN el.attrs THEN el.attrs[name] ELSE Undefined

-----------------------------------------------------------------------------
(* plotEdges.                                                              *)

DefaultEdgeAlpha == 5
DefaultLinewidth == 15

\* normalizeEdgeKwargs applied to an object that nothing else refers to
NormalizedEdgeKwargs(raw) ==
    LET r == normalizeEdgeKwargs(<<raw>>, 1) IN r.heap[r.ret]

\* Own keys are enumerated in insertion order; documents are taken to insert
\* axes and tags in this order.
KeyOrder == <<"A", "B", "t1", "t2">>

\* Object.keys(obj)
ObjectKeys(obj) ==
    LET own(k) == k \in DOMAIN obj.v IN SelectSeq(KeyOrder, own)

\* A slip: the array+cmap branch is tested after the explicit colors.
EdgeStroke_colorfirst(kwargs, colorScale, curveIdx) ==
    IF IsArray(GetProp(kwargs, "color"))
    THEN ArrayAt(GetProp(kwargs, "color"), curveIdx)
    ELSE IF Truthy(GetProp(kwargs, "color"))
    THEN GetProp(kwargs, "color")
    ELSE IF colorScale # Null /\ Truthy(GetProp(kwargs, "array"))
    THEN ScaleSequential(colorScale.interp, colorScale.domain,
                         ArrayAt(GetProp(kwargs, "array"), curveIdx))
    ELSE Str("black")

\* Color: array+cmap takes priority, then per-edge color array, then scalar
EdgeStroke(kwargs, colorScale, curveIdx) ==
    IF colorScale # Null /\ Truthy(GetProp(kwargs, "array"))
    THEN ScaleSequential(colorScale.interp, colorScale.domain,
                         ArrayAt(GetProp(kwargs, "array"), curveIdx))
    ELSE IF IsArray(GetProp(kwargs, "color"))
    THEN ArrayAt(GetProp(kwargs, "color"), curveIdx)
    ELSE OrElse(GetProp(kwargs, "color"), Str("black"))

\* A slip: || for ??, a scalar 0 gives way to the default.
ScalarOrArray_falsy(v, i, dflt) == IF IsArray(v) THEN ArrayAt(v, i) ELSE OrElse(v, dflt)

\* Array.isArray(v) ? v[i] : (v ?? dflt)
ScalarOrArray(v, i, dflt) == IF IsArray(v) THEN ArrayAt(v, i) ELSE Nullish(v, dflt)

\* The linestyle block: stroke-dasharray is set only for a truthy dash.
EdgeDash(el, kwargs, curveIdx) ==
    LET ls == GetProp(kwargs, "linestyle")
        dash == linestyleToDasharray(IF IsArray(ls) THEN ArrayAt(ls, curveIdx) ELSE ls)
    IN  IF Truthy(ls) /\ Truthy(dash) THEN Attr(el, "stroke-dasharray", dash) ELSE el

\* One pass of the curveIdx loop: the children appended and whether it raised.
\* Reading curves[curveIdx] of a missing curves raises before the append; a
\* missing curve raises inside attr("d", ...), after the path was appended.
EmitEdge(edgeInfo, kwargs, colorScale, curveIdx) ==
    LET curves == GetProp(edgeInfo, "curves")
        curveData == ArrayAt(curves, curveIdx)
        p0 == NewElement("path", curveData)
        p1 == Attr(p0, "d", [t |-> "line", v |-> curveData])
        p2 == Attr(p1, "fill", Str("none"))
        p3 == Attr(p2, "class", Str("edge"))
        p4 == Attr(p3, "stroke", EdgeStroke(kwargs, colorScale, curveIdx))
        p5 == Attr(p4, "stroke-opacity",
                   ScalarOrArray(GetProp(kwargs, "alpha"), curveIdx, Num(DefaultEdgeAlpha)))
        p6 == Attr(p5, "stroke-width",
                   ScalarOrArray(GetProp(kwargs, "linewidth"), curveIdx,
                                 Num(DefaultLinewidth)))
        p7 == EdgeDash(p6, kwargs, curveIdx)
    IN  IF ~IsArray(curves) THEN [els |-> <<>>, threw |-> TRUE]
        ELSE IF curveData = Undefined THEN [els |-> <<p0>>, threw |-> TRUE]
        ELSE [els |-> <<p7>>, threw |-> FALSE]

\* for (let curveIdx = from; curveIdx < numEdges; curveIdx++) { ... }
RECURSIVE CurveLoop(_, _, _, _, _, _)
CurveLoop(acc, edgeInfo, kwargs, colorScale, curveIdx, numEdges) ==
    IF curveIdx >= numEdges THEN [svg |-> acc, threw |-> FALSE]
    ELSE LET e == EmitEdge(edgeInfo, kwargs, colorScale, curveIdx)
         IN  IF e.threw THEN [svg |-> acc \o e.els, threw |-> TRUE]
             ELSE CurveLoop(acc \o e.els, edgeInfo, kwargs, colorScale,
                            curveIdx + 1, numEdges)

\* The body of the tag loop for one EdgeGroup.
PlotEdgeGroup(acc, edgeInfo) ==
    LET ids == GetProp(edgeInfo, "ids")
        rawKw == OrElse(GetProp(edgeInfo, "edge_kwargs"), Obj(EmptyObject))
        kwargs == NormalizedEdgeKwargs(rawKw.v)
        colorScale ==
            IF Truthy(GetProp(kwargs, "array"))
            THEN [interp |-> cmapToD3Interpolator(GetProp(kwargs, "cmap")),
                  domain |-> OrElse(GetProp(kwargs, "clim"),
                                    Extent(GetProp(kwargs, "array")))]
            ELSE Null
    IN  IF ~Truthy(ids) \/ Len(ids.v) = 0 THEN [svg |-> acc, threw |-> FALSE]
        ELSE CurveLoop(acc, edgeInfo, kwargs, colorScale, 0, Len(ids.v))

\* A slip: the tag loop leaves after its first tag.
TagsOf_firstonly(pairObj) == SubSeq(ObjectKeys(pairObj), 1, 1)

\* const tags = Object.keys(data.edges[fromAxes[i]][toAxes[j]])
TagsOf(pairObj) == ObjectKeys(pairObj)

\* The three nested loops, unrolled: the EdgeGroups in the order visited.
RECURSIVE Flatten(_)
Flatten(ss) == IF ss = <<>> THEN <<>> ELSE Head(ss) \o Flatten(Tail(ss))

EdgeGroupsVisited(edges) ==
    LET fromAxes == ObjectKeys(edges)
        ofPair(pairObj) ==
            LET tags == TagsOf(pairObj)
            IN  [k \in 1..Len(tags) |-> pairObj.v[tags[k]].v]
        ofFrom(fromObj) ==
            LET toAxes == ObjectKeys(fromObj)
            IN  Flatten([j \in 1..Len(toAxes) |-> ofPair(fromObj.v[toAxes[j]])])
    IN  Flatten([i \in 1..Len(fromAxes) |-> ofFrom(edges.v[fromAxes[i]])])

RECURSIVE GroupLoop(_, _, _)
GroupLoop(acc, groups, k) ==
    IF k > Len(groups) THEN [svg |-> acc, threw |-> FALSE]
    ELSE LET r == PlotEdgeGroup(acc, groups[k])
         IN  IF r.threw THEN r ELSE GroupLoop(r.svg, groups, k + 1)

plotEdges(d, surface) ==
    IF ~Truthy(GetProp(d, "edges")) THEN [svg |-> surface, threw |-> FALSE]
    ELSE GroupLoop(surface, EdgeGroupsVisited(GetProp(d, "edges")), 1)


-----------------------------------------------------------------------------
(* The plotEdges harness: one generated document, one call of plotEdges on *)
(* an empty surface.                                                       *)

Absent == [t |-> "absent"]

\* the object holding the entries of f that are not Absent
Present(f) == [k \in {x \in DOMAIN f : f[x] # Absent} |-> f[k]]

Slots == {<<"A", "B", "t1">>, <<"A", "B", "t2">>, <<"B", "A", "t1">>}

Ramp(n, step) == Arr([i \in 1..n |-> Num(step * i)])
Const(n, c) == Arr([i \in 1..n |-> Num(c)])
ColorNames == <<"#FF0000", "#0000FF", "#00FF00", "#FFFF00">>
Colors(n) == Arr([i \in 1..n |-> Str(ColorNames[i])])

\* an EdgeGroup of n edges at a slot: ids, curves (one per id) and edge_kwargs
EdgeGroup(slot, n, kw) ==
    Present([k \in {"ids", "curves", "edge_kwargs"} |->
        CASE k = "ids" -> Arr([i \in 1..n |-> Num(i)])
          [] k = "curves" -> Arr([i \in 1..n |-> Curve(<<slot, i - 1>>)])
          [] k = "edge_kwargs" -> kw])

\* a style-only placeholder group: edge_kwargs and nothing else
Placeholder(kw) == [k \in {"edge_kwargs"} |-> kw]

PlainKwargs ==
    {Absent, Obj([k \in {"color"} |-> Str("#FF0000")]),
     Obj([k \in {"color"} |-> Str("#0000FF")])}

PlainGroups(slot) ==
    {Placeholder(Obj([k \in {"color"} |-> Str("#FF0000")]))}
        \cup {EdgeGroup(slot, n, kw) : n \in 0..MaxEdges, kw \in PlainKwargs}

StyleKeys == {"array", "cmap", "clim", "color", "alpha", "lw", "linestyle"}

StyleOptions(k, n) ==
    CASE k = "array" -> {Absent, Ramp(n, 10), Const(n, 50)}
      [] k = "cmap" -> {Absent, Str("plasma"), Str("not_a_cmap")}
      [] k = "clim" -> {Absent, Arr(<<Num(0), Num(100)>>)}
      [] k = "color" -> {Absent, Str("red"), Str(""), Colors(n)}
      [] k = "alpha" -> {Absent, Num(0), Ramp(n, 3)}
      [] k = "lw" -> {Absent, Num(20), Ramp(n, 10)}
      [] k = "linestyle" -> {Absent, Str("--")}

StyleKwargs(n) ==
    {Obj(Present([k \in StyleKeys |->
            CASE k = "array" -> ar
              [] k = "cmap" -> cm
              [] k = "clim" -> cl
              [] k = "color" -> co
              [] k = "alpha" -> al
              [] k = "lw" -> lw
              [] k = "linestyle" -> ls])) :
        ar \in StyleOptions("array", n), cm \in StyleOptions("cmap", n),
        cl \in StyleOptions("clim", n), co \in StyleOptions("color", n),
        al \in StyleOptions("alpha", n), lw \in StyleOptions("lw", n),
        ls \in StyleOptions("linestyle", n)}

\* data.edges built from the groups chosen for the slots (Absent: no entry)
EdgesObject(choice) ==
    LET has(s) == choice[s] # Absent
        froms == {s[1] : s \in {x \in Slots : has(x)}}
        tos(a) == {s[2] : s \in {x \in Slots : has(x) /\ x[1] = a}}
        tags(a, b) == {s[3] : s \in {x \in Slots : has(x) /\ x[1] = a /\ x[2] = b}}
    IN  Obj([a \in froms |->
            Obj([b \in tos(a) |->
                Obj([g \in tags(a, b) |-> Obj(choice[<<a, b, g>>])])])])

Document(edges) == Present([k \in {"axes", "edges"} |->
                               IF k = "edges" THEN edges ELSE Obj(EmptyObject)])

PlainDocuments ==
    {Document(EdgesObject([s \in Slots |->
            CASE s = <<"A", "B", "t1">> -> g1
              [] s = <<"A", "B", "t2">> -> g2
              [] s = <<"B", "A", "t1">> -> g3])) :
        g1 \in {Absent} \cup PlainGroups(<<"A", "B", "t1">>),
        g2 \in {Absent} \cup PlainGroups(<<"A", "B", "t2">>),
        g3 \in {Absent} \cup PlainGroups(<<"B", "A", "t1">>)}

OneSlot == <<"A", "B", "t1">>

StyledDocuments ==
    {Document(EdgesObject([s \in Slots |->
                              IF s = OneSlot THEN EdgeGroup(s, n, kw) ELSE Absent])) :
        n \in 1..MaxEdges, kw \in UNION {StyleKwargs(m) : m \in 1..MaxEdges}}

Documents == {Document(Absent)} \cup PlainDocuments \cup StyledDocuments

EdgeIdle ==
    /\ data = EmptyObject
    /\ svg = <<>>
    /\ threw = FALSE
    /\ pc = "off"

EdgesCall ==
    /\ data \in Documents
    /\ svg = <<>>
    /\ threw = FALSE
    /\ pc = "ready"

CallPlotEdges ==
    /\ pc = "ready"
    /\ LET r == plotEdges(data, svg)
       IN  /\ svg' = r.svg
           /\ threw' = r.threw
    /\ pc' = "done"
    /\ UNCHANGED <<data, normVars, lookupVars, vizVars>>

VizIdle ==
    /\ opts = EmptyObject
    /\ container = <<>>
    /\ surfaces = <<>>
    /\ inv = <<>>

-----------------------------------------------------------------------------
(* Specifications.                                                         *)

NextNorm == CallNormalizeEdgeKwargs \/ CallNormalizeNodeKwargs
InitNorm == NormInputs /\ LookupIdle /\ EdgeIdle /\ VizIdle
SpecNorm == InitNorm /\ [][NextNorm]_vars

NextLookup == CallLinestyleToDasharray \/ CallCmapToD3Interpolator
InitLookup == NormIdle /\ LookupCall /\ EdgeIdle /\ VizIdle
SpecLookup == InitLookup /\ [][NextLookup]_vars

NextEdges == CallPlotEdges
InitEdges == NormIdle /\ LookupIdle /\ EdgesCall /\ VizIdle
SpecEdges == InitEdges /\ [][NextEdges]_vars


-----------------------------------------------------------------------------
(* Properties of plotEdges (checked under SpecEdges).                      *)

\* the EdgeGroups of the document, by slot
HasGroup(s) ==
    /\ "edges" \in DOMAIN data
    /\ s[1] \in DOMAIN data.edges.v
    /\ s[2] \in DOMAIN data.edges.v[s[1]].v
    /\ s[3] \in DOMAIN data.edges.v[s[1]].v[s[2]].v
GroupAt(s) == data.edges.v[s[1]].v[s[2]].v[s[3]].v
GroupSlots == {s \in Slots : HasGroup(s)}

IdsLength(g) == IF "ids" \in DOMAIN g THEN Len(g.ids.v) ELSE 0

RECURSIVE SumIds(_)
SumIds(S) ==
    IF S = {} THEN 0
    ELSE LET s == CHOOSE x \in S : TRUE
         IN  IdsLength(GroupAt(s)) + SumIds(S \ {s})

EdgePrimitives == {i \in DOMAIN svg : GetAttr(svg[i], "class") = Str("edge")}

\* the positions on the surface of the path drawn for edge i of the group at s
PathsOf(s, i) == {j \in EdgePrimitives : svg[j].datum = Curve(<<s, i>>)}

\* every group with edges has exactly one curve per id
CurvesMatchIds ==
    \A s \in GroupSlots :
        IdsLength(GroupAt(s)) > 0 =>
            /\ "curves" \in DOMAIN GroupAt(s)
            /\ Len(GroupAt(s).curves.v) = IdsLength(GroupAt(s))

\* C1: for a document whose groups satisfy ids.length = curves.length,
\* plotEdges raises nothing and leaves exactly one edge path per edge of every
\* (source axis, target axis, tag) group: the number of edge primitives is the
\* sum of ids.length over all tags of all axis pairs, a group without ids or
\* with empty ids contributing none.
C1_OnePathPerEdge ==
    (pc = "done" /\ CurvesMatchIds) =>
        /\ ~threw
        /\ Cardinality(EdgePrimitives) = SumIds(GroupSlots)
        /\ Len(svg) = Cardinality(EdgePrimitives)
        /\ \A s \in GroupSlots :
              \A i \in 0..(IdsLength(GroupAt(s)) - 1) : Cardinality(PathsOf(s, i)) = 1

\* two tags with edges between the same axis pair, and a group without ids
C1_Witness ==
    /\ pc = "done"
    /\ GroupSlots = Slots
    /\ IdsLength(GroupAt(<<"A", "B", "t1">>)) = 2
    /\ IdsLength(GroupAt(<<"A", "B", "t2">>)) = 1
    /\ "ids" \notin DOMAIN GroupAt(<<"B", "A", "t1">>)
    /\ Cardinality(EdgePrimitives) = 3
    /\ ~threw

\* the raw edge_kwargs of a group ({} when absent)
RawKwargs(g) == IF "edge_kwargs" \in DOMAIN g THEN g.edge_kwargs.v ELSE EmptyObject

\* the stroke the colormap gives edge i: scale from cmap, over clim if given,
\* else over [min, max] of the whole array
ColormapStroke(kw, i) ==
    ScaleSequential(cmapToD3Interpolator(GetProp(kw, "cmap")),
                    IF "clim" \in DOMAIN kw THEN kw.clim
                    ELSE Arr(<<Num(SetMin(NumsOf(kw.array))),
                               Num(SetMax(NumsOf(kw.array)))>>),
                    ArrayAt(kw.array, i))

\* the stroke the explicit color gives edge i
ExplicitStroke(kw, i) ==
    IF "color" \notin DOMAIN kw THEN Str("black")
    ELSE IF IsArray(kw.color) THEN ArrayAt(kw.color, i)
    ELSE IF kw.color = Str("") THEN Str("black")
    ELSE kw.color

\* C2: whenever a group's edge_kwargs contains array, the stroke of every
\* edge i of the group is the colormap color of array[i] (no stroke attribute
\* where array has no entry i), whatever color holds; color[i], the scalar
\* color or "black" are the stroke only when array is absent.
C2_ArrayOverridesColor ==
    (pc = "done" /\ ~threw) =>
        \A s \in GroupSlots :
            \A i \in 0..(IdsLength(GroupAt(s)) - 1) :
                \A j \in PathsOf(s, i) :
                    LET kw == RawKwargs(GroupAt(s))
                    IN  GetAttr(svg[j], "stroke") =
                            IF "array" \in DOMAIN kw THEN ColormapStroke(kw, i)
                            ELSE ExplicitStroke(kw, i)

\* array, cmap and a color array all present: the stroke is the plasma color
C2_Witness ==
    /\ pc = "done"
    /\ HasGroup(OneSlot)
    /\ LET kw == RawKwargs(GroupAt(OneSlot))
       IN  /\ {"array", "cmap", "color"} \subseteq DOMAIN kw
           /\ kw.cmap = Str("plasma")
           /\ kw.color = Colors(2)
           /\ kw.array = Ramp(2, 10)
           /\ "clim" \notin DOMAIN kw
    /\ Len(svg) = 2
    /\ GetAttr(svg[2], "stroke") = Interpolated(Fn("Plasma"), 1, 1)
    /\ GetAttr(svg[1], "stroke") = Interpolated(Fn("Plasma"), 0, 1)

-----------------------------------------------------------------------------
(* Properties of the normalizers (checked under SpecNorm).                 *)

FirstResult == nHeap[nRets[1]]
FillKeys == {"c", "color", "facecolor"}

\* C3: _fill is facecolor if present, else color if present, else c if
\* present, and is not added when none of the three is present.
C3_FillPriority ==
    (nKind = "node" /\ Len(nRets) >= 1) =>
        IF "facecolor" \in DOMAIN nRaw THEN GetProp(FirstResult, "_fill") = nRaw.facecolor
        ELSE IF "color" \in DOMAIN nRaw THEN GetProp(FirstResult, "_fill") = nRaw.color
        ELSE IF "c" \in DOMAIN nRaw THEN GetProp(FirstResult, "_fill") = nRaw.c
        ELSE "_fill" \notin DOMAIN FirstResult

C3_Witness ==
    /\ nKind = "node"
    /\ Len(nRets) >= 1
    /\ FillKeys \subseteq DOMAIN nRaw
    /\ nRaw.facecolor # nRaw.color
    /\ nRaw.c = nRaw.color
    /\ FirstResult["_fill"] = nRaw.facecolor

\* C4: the result of normalizeNodeKwargs holds none of c, color, facecolor.
C4_NoFillAliasLeft ==
    (nKind = "node" /\ Len(nRets) >= 1) => DOMAIN FirstResult \cap FillKeys = {}

\* C5: the result of normalizeEdgeKwargs holds neither lw nor ls.
C5_NoEdgeAliasLeft ==
    (nKind = "edge" /\ Len(nRets) >= 1) => DOMAIN FirstResult \cap {"lw", "ls"} = {}

\* the value the canonical key must have: the raw canonical value, else the alias
CanonicalWins(alias, canon) ==
    IF canon \in DOMAIN nRaw THEN GetProp(FirstResult, canon) = nRaw[canon]
    ELSE IF alias \in DOMAIN nRaw THEN GetProp(FirstResult, canon) = nRaw[alias]
    ELSE canon \notin DOMAIN FirstResult

\* C6: linewidth is the raw linewidth when present and the raw lw only when
\* linewidth is absent (likewise linestyle / ls); every other key passes
\* through with its value.
C6_CanonicalWins ==
    (nKind = "edge" /\ Len(nRets) >= 1) =>
        /\ CanonicalWins("lw", "linewidth")
        /\ CanonicalWins("ls", "linestyle")
        /\ \A k \in (DOMAIN nRaw \cup DOMAIN FirstResult)
                        \ {"lw", "ls", "linewidth", "linestyle"} :
              /\ k \in DOMAIN nRaw
              /\ k \in DOMAIN FirstResult
              /\ FirstResult[k] = nRaw[k]

C6_Witness ==
    /\ nKind = "edge"
    /\ Len(nRets) >= 1
    /\ {"lw", "linewidth", "ls", "cmap"} \subseteq DOMAIN nRaw
    /\ "linestyle" \notin DOMAIN nRaw
    /\ nRaw.lw # nRaw.linewidth
    /\ FirstResult["linewidth"] = nRaw.linewidth
    /\ FirstResult["linestyle"] = nRaw.ls

\* C7: normalizing a result of normalizeEdgeKwargs again gives the same
\* dictionary, key for key.
C7_EdgeIdempotent ==
    nKind = "edge" =>
        \A k \in 2..Len(nRets) : nHeap[nRets[k]] = nHeap[nRets[k - 1]]

\* a second call made on a result that the first call had to rewrite
C7_Witness ==
    /\ nKind = "edge"
    /\ Len(nRets) >= 2
    /\ {"lw", "ls"} \subseteq DOMAIN nRaw
    /\ "linewidth" \notin DOMAIN nRaw
    /\ FirstResult # nRaw
    /\ nHeap[nRets[2]] = FirstResult

\* C8: a call of either normalizer leaves every object that existed before
\* the call (its argument among them) with the keys and values it had, and
\* returns an object that did not exist before.
C8_NoMutation ==
    [][/\ \A r \in 1..Len(nHeap) : nHeap'[r] = nHeap[r]
       /\ Len(nRets') > Len(nRets) =>
             /\ nRets'[Len(nRets')] \notin 1..Len(nHeap)
             /\ nRets'[Len(nRets')] # nArgs'[Len(nArgs')]]_vars

\* the alias lw was resolved in the result and is still in the input
C8_Witness ==
    /\ Len(nRets) >= 1
    /\ nKind = "edge"
    /\ "lw" \in DOMAIN nRaw
    /\ "linewidth" \notin DOMAIN nRaw
    /\ nHeap[nArgs[1]] = nRaw
    /\ "lw" \in DOMAIN nHeap[nArgs[1]]
    /\ "lw" \notin DOMAIN FirstResult

-----------------------------------------------------------------------------
(* Properties of the lookups (checked under SpecLookup).                   *)

\* C9: linestyleToDasharray returns null for "-", "solid" and every string
\* that is not a table key, "5,5" for "--"/"dashed", "2,2" for ":"/"dotted"
\* and "5,2,2,2" for "-."/"dashdot".
C9_DasharrayTable ==
    (lkFn = "linestyle" /\ lkDone /\ lkIn.t = "str") =>
        lkOut = CASE lkIn.v \in {"--", "dashed"} -> Str("5,5")
                  [] lkIn.v \in {":", "dotted"} -> Str("2,2")
                  [] lkIn.v \in {"-.", "dashdot"} -> Str("5,2,2,2")
                  [] OTHER -> Null

\* C10: cmapToD3Interpolator returns the viridis interpolator for undefined
\* and for every name that is not in its table, and the bound interpolator for
\* a name of the table.
C10_ViridisFallback ==
    (lkFn = "cmap" /\ lkDone) =>
        lkOut = IF lkIn.t = "str" /\ lkIn.v \in DOMAIN CmapMap
                THEN CmapMap[lkIn.v]
                ELSE Fn("Viridis")


\* the recognized names other than the looked-up one that give the same function
SameInterpolator(name) ==
    {b \in DOMAIN CmapMap \ {name} : cmapToD3Interpolator(Str(b)) = lkOut}

\* C11 as claimed: any two different recognized names give different functions.
C11_AllDistinct ==
    (lkFn = "cmap" /\ lkDone /\ lkIn.t = "str" /\ lkIn.v \in DOMAIN CmapMap) =>
        SameInterpolator(lkIn.v) = {}

\* C11 amended: two different recognized names give different functions,
\* except RdBu and coolwarm, which both give d3.interpolateRdBu.
C11_DistinctButCoolwarm ==
    (lkFn = "cmap" /\ lkDone /\ lkIn.t = "str" /\ lkIn.v \in DOMAIN CmapMap) =>
        SameInterpolator(lkIn.v) =
            CASE lkIn.v = "RdBu" -> {"coolwarm"}
              [] lkIn.v = "coolwarm" -> {"RdBu"}
              [] OTHER -> {}

C11_Witness ==
    /\ lkFn = "cmap"
    /\ lkDone
    /\ lkIn = Str("coolwarm")
    /\ lkOut = Fn("RdBu")
    /\ cmapToD3Interpolator(Str("plasma")) # lkOut


-----------------------------------------------------------------------------
(* plotAxes, plotNodes and plotLabels.                                     *)

NaN == [t |-> "nan"]

\* x(v), y(v): a data coordinate through the linear scale of that direction
Scaled(dir, v) == [t |-> "px", dir |-> dir, v |-> v]

DefaultAxisWidth == 15
DefaultAxisOpacity == 5
DefaultNodeSize == 200
DefaultNodeAlpha == 8

\* One pass of the loop of plotAxes; start[0] of a missing start raises
\* before anything is appended.
AxisElement(axisData) ==
    LET start == GetProp(axisData, "start")
        end == GetProp(axisData, "end")
        p0 == NewElement("path", Undefined)
        p1 == Attr(p0, "d", [t |-> "line",
                             v |-> <<Scaled("x", ArrayAt(start, 0)),
                                     Scaled("y", ArrayAt(start, 1)),
                                     Scaled("x", ArrayAt(end, 0)),
                                     Scaled("y", ArrayAt(end, 1))>>])
        p2 == Attr(p1, "stroke", Str("black"))
        p3 == Attr(p2, "stroke-width", Num(DefaultAxisWidth))
        p4 == Attr(p3, "stroke-opacity", Num(DefaultAxisOpacity))
        p5 == Attr(p4, "class", Str("axis"))
    IN  IF ~IsArray(start) \/ ~IsArray(end) THEN [els |-> <<>>, threw |-> TRUE]
        ELSE [els |-> <<p5>>, threw |-> FALSE]

RECURSIVE AxesLoop(_, _, _, _)
AxesLoop(acc, axes, axisNames, i) ==
    IF i > Len(axisNames) THEN [svg |-> acc, threw |-> FALSE]
    ELSE LET e == AxisElement(axes.v[axisNames[i]].v)
         IN  IF e.threw THEN [svg |-> acc \o e.els, threw |-> TRUE]
             ELSE AxesLoop(acc \o e.els, axes, axisNames, i + 1)

plotAxes(d, surface) ==
    IF GetProp(d, "axes").t # "obj" THEN [svg |-> surface, threw |-> TRUE]
    ELSE AxesLoop(surface, d.axes, ObjectKeys(d.axes), 1)

\* normalizeNodeKwargs applied to an object that nothing else refers to
NormalizedNodeKwargs(raw) ==
    LET r == normalizeNodeKwargs(<<raw>>, 1) IN r.heap[r.ret]

\* Math.sqrt(s / Math.PI): kept as the square root of s / pi; NaN for a
\* missing or negative s
scatterSizeToRadius(s) ==
    IF s.t = "num" /\ s.v >= 0 THEN [t |-> "sqrtOverPi", v |-> s.v] ELSE NaN

\* d3.min(a), d3.max(a)
D3Min(a) == ArrayAt(Extent(a), 0)
D3Max(a) == ArrayAt(Extent(a), 1)

\* A slip: the test of the first element's type is left out.
NodeColorScale_anyarray(kwargs) ==
    LET fill == GetProp(kwargs, "_fill")
    IN  IF IsArray(fill) /\ Len(fill.v) > 0
        THEN [interp |-> cmapToD3Interpolator(GetProp(kwargs, "cmap")),
              domain |-> Arr(<<Nullish(GetProp(kwargs, "vmin"), D3Min(fill)),
                               Nullish(GetProp(kwargs, "vmax"), D3Max(fill))>>)]
        ELSE Null

\* the colormap scale of an axis: set up only for a numeric, non-empty _fill
NodeColorScale(kwargs) ==
    LET fill == GetProp(kwargs, "_fill")
    IN  IF IsArray(fill) /\ Len(fill.v) > 0 /\ ArrayAt(fill, 0).t = "num"
        THEN [interp |-> cmapToD3Interpolator(GetProp(kwargs, "cmap")),
              domain |-> Arr(<<Nullish(GetProp(kwargs, "vmin"), D3Min(fill)),
                               Nullish(GetProp(kwargs, "vmax"), D3Max(fill))>>)]
        ELSE Null

NodeFill(kwargs, colorScale, j) ==
    IF colorScale # Null
    THEN ScaleSequential(colorScale.interp, colorScale.domain,
                         ArrayAt(GetProp(kwargs, "_fill"), j))
    ELSE IF IsArray(GetProp(kwargs, "_fill")) THEN ArrayAt(GetProp(kwargs, "_fill"), j)
    ELSE OrElse(GetProp(kwargs, "_fill"), Str("black"))

NodeStroke(kwargs, j) ==
    IF ~Truthy(GetProp(kwargs, "edgecolor")) THEN Str("none")
    ELSE IF IsArray(GetProp(kwargs, "edgecolor"))
    THEN ArrayAt(GetProp(kwargs, "edgecolor"), j)
    ELSE GetProp(kwargs, "edgecolor")

\* the circle appended for the j-th pair of d3.zip(nodeX, nodeY)
NodeElement(nodeX, nodeY, kwargs, colorScale, j) ==
    LET c0 == NewElement("circle", <<ArrayAt(nodeX, j), ArrayAt(nodeY, j)>>)
        c1 == Attr(c0, "cx", Scaled("x", ArrayAt(nodeX, j)))
        c2 == Attr(c1, "cy", Scaled("y", ArrayAt(nodeY, j)))
        c3 == Attr(c2, "r", scatterSizeToRadius(
                  ScalarOrArray(GetProp(kwargs, "s"), j, Num(DefaultNodeSize))))
        c4 == Attr(c3, "fill", NodeFill(kwargs, colorScale, j))
        c5 == Attr(c4, "fill-opacity",
                   ScalarOrArray(GetProp(kwargs, "alpha"), j, Num(DefaultNodeAlpha)))
        c6 == Attr(c5, "stroke", NodeStroke(kwargs, j))
    IN  Attr(c6, "class", Str("node"))

Min2(a, b) == IF a <= b THEN a ELSE b

\* A slip: the data join is made on the surface's circles (selectAll("circle")),
\* so that only the nodes beyond those already drawn enter.
EnteringNodes_joined(acc, n) ==
    LET drawn == Cardinality({i \in DOMAIN acc : acc[i].tag = "circle"})
    IN  IF n > drawn THEN drawn..(n - 1) ELSE {}

\* svg.selectAll(null).data(nodeData).enter(): every datum enters
EnteringNodes(acc, n) == 0..(n - 1)

\* The body of the loop of plotNodes for one axis; reading x of a missing
\* nodes, or zipping a missing x or y, raises before anything is appended.
PlotAxisNodes(acc, d, axisName) ==
    LET nodes == GetProp(d.axes.v[axisName].v, "nodes")
        nodeX == GetProp(nodes.v, "x")
        nodeY == GetProp(nodes.v, "y")
        nvk == GetProp(d, "node_viz_kwargs")
        kwargs == IF Truthy(nvk) /\ Truthy(GetProp(nvk.v, axisName))
                  THEN NormalizedNodeKwargs(GetProp(nvk.v, axisName).v)
                  ELSE EmptyObject
        colorScale == NodeColorScale(kwargs)
        n == Min2(Len(nodeX.v), Len(nodeY.v))
        enter == EnteringNodes(acc, n)
        js == SelectSeq([k \in 1..n |-> k - 1], LAMBDA j : j \in enter)
    IN  IF nodes.t # "obj" THEN [svg |-> acc, threw |-> TRUE]
        ELSE IF ~IsArray(nodeX) \/ ~IsArray(nodeY) THEN [svg |-> acc, threw |-> TRUE]
        ELSE [svg |-> acc \o [k \in 1..Len(js) |->
                                 NodeElement(nodeX, nodeY, kwargs, colorScale, js[k])],
              threw |-> FALSE]

RECURSIVE NodesLoop(_, _, _, _)
NodesLoop(acc, d, axisNames, i) ==
    IF i > Len(axisNames) THEN [svg |-> acc, threw |-> FALSE]
    ELSE LET r == PlotAxisNodes(acc, d, axisNames[i])
         IN  IF r.threw THEN r ELSE NodesLoop(r.svg, d, axisNames, i + 1)

plotNodes(d, surface) ==
    IF GetProp(d, "axes").t # "obj" THEN [svg |-> surface, threw |-> TRUE]
    ELSE NodesLoop(surface, d, ObjectKeys(d.axes), 1)


-----------------------------------------------------------------------------
(* The plotNodes harness: one generated document, one call of plotNodes on *)
(* an empty surface.                                                       *)

\* an axis holds up to MaxNodes nodes
MaxNodes == 2

AxisNames == {"A", "B"}

\* nodes of an axis: unique_id, x and y of one common length n
NodesObject(n) ==
    Obj([k \in {"unique_id", "x", "y"} |->
            CASE k = "unique_id" -> Arr([i \in 1..n |-> Num(i - 1)])
              [] k = "x" -> Ramp(n, 10)
              [] k = "y" -> Const(n, 0)])

\* an axis of the document: start, end, nodes and (unless Absent) angle, long_name
AxisObject(n, angle, longName) ==
    Obj(Present([k \in {"start", "end", "angle", "long_name", "nodes"} |->
            CASE k = "start" -> Arr(<<Num(10), Num(0)>>)
              [] k = "end" -> Arr(<<Num(50), Num(0)>>)
              [] k = "angle" -> angle
              [] k = "long_name" -> longName
              [] k = "nodes" -> NodesObject(n)]))

NodeStyleKeys == {"s", "alpha", "color", "cmap", "edgecolor"}

NodeStyleOptions(k, m) ==
    CASE k = "s" -> {Absent, Num(400), Ramp(m, 100)}
      [] k = "alpha" -> {Absent, Num(0), Ramp(m, 3)}
      [] k = "color" -> {Absent, Str("red"), Ramp(m, 10), Colors(m)}
      [] k = "cmap" -> {Absent, Str("plasma")}
      [] k = "edgecolor" -> {Absent, Str("white")}

\* node_viz_kwargs of one axis, its arrays of length m
NodeStyleKwargs(m) ==
    {Obj(Present([k \in NodeStyleKeys |->
            CASE k = "s" -> sz
              [] k = "alpha" -> al
              [] k = "color" -> co
              [] k = "cmap" -> cm
              [] k = "edgecolor" -> ec])) :
        sz \in NodeStyleOptions("s", m), al \in NodeStyleOptions("alpha", m),
        co \in NodeStyleOptions("color", m), cm \in NodeStyleOptions("cmap", m),
        ec \in NodeStyleOptions("edgecolor", m)}

\* a document with the given axes and node_viz_kwargs (Absent: no entry)
NodeDocument(axes, nvk) ==
    Present([k \in {"axes", "node_viz_kwargs"} |->
                IF k = "axes" THEN Obj(Present(axes))
                ELSE IF \A a \in AxisNames : nvk[a] = Absent THEN Absent
                ELSE Obj(Present(nvk))])

PlainAxes == {Absent} \cup {AxisObject(n, Absent, Absent) : n \in 0..MaxNodes}

PlainNodeKwargs == {Absent, Obj([k \in {"c"} |-> Str("blue")])}

PlainNodeDocuments ==
    {NodeDocument([a \in AxisNames |-> IF a = "A" THEN axA ELSE axB],
                  [a \in AxisNames |-> IF a = "A" THEN Absent
                                       ELSE IF axB = Absent THEN Absent ELSE kwB]) :
        axA \in PlainAxes, axB \in PlainAxes, kwB \in PlainNodeKwargs}

\* axis A of n nodes styled by arrays of length m, axis B unstyled
StyledNodeDocuments ==
    {NodeDocument([a \in AxisNames |-> IF a = "A" THEN AxisObject(n, Absent, Absent)
                                       ELSE axB],
                  [a \in AxisNames |-> IF a = "A" THEN kw ELSE Absent]) :
        n \in 1..MaxNodes, axB \in {Absent, AxisObject(1, Absent, Absent)},
        kw \in UNION {NodeStyleKwargs(m) : m \in 1..MaxNodes}}

\* axis A of MaxNodes nodes whose fill is given under one of its names, as
\* numbers, color strings or one color, with or without cmap, vmin and vmax
FillDocuments ==
    {NodeDocument(
        [a \in AxisNames |-> IF a = "A" THEN AxisObject(MaxNodes, Absent, Absent)
                             ELSE AxisObject(1, Absent, Absent)],
        [a \in AxisNames |->
            IF a = "B" THEN Absent
            ELSE Obj(Present([k \in {"c", "color", "facecolor", "cmap", "vmin", "vmax"} |->
                     CASE k = key -> fill
                       [] k = "cmap" -> cm
                       [] k = "vmin" -> lo
                       [] k = "vmax" -> hi
                       [] OTHER -> Absent]))]) :
        key \in {"c", "color", "facecolor"},
        fill \in {Str("red"), Ramp(MaxNodes, 10), Colors(MaxNodes)},
        cm \in {Absent, Str("plasma")},
        lo \in {Absent, Num(0)}, hi \in {Absent, Num(100)}}

NodeDocuments == PlainNodeDocuments \cup StyledNodeDocuments \cup FillDocuments

NodesCall ==
    /\ data \in NodeDocuments
    /\ svg = <<>>
    /\ threw = FALSE
    /\ pc = "ready"

CallPlotNodes ==
    /\ pc = "ready"
    /\ LET r == plotNodes(data, svg)
       IN  /\ svg' = r.svg
           /\ threw' = r.threw
    /\ pc' = "done"
    /\ UNCHANGED <<data, normVars, lookupVars, vizVars>>

NextNodes == CallPlotNodes
InitNodes == NormIdle /\ LookupIdle /\ NodesCall /\ VizIdle
SpecNodes == InitNodes /\ [][NextNodes]_vars

-----------------------------------------------------------------------------
(* Properties of plotNodes.                                                *)

AxesOf(d) == IF "axes" \in DOMAIN d THEN DOMAIN d.axes.v ELSE {}

NodeCount(d, a) == Len(d.axes.v[a].v.nodes.v.unique_id.v)

RECURSIVE SumOver(_, _)
SumOver(S, f) ==
    IF S = {} THEN 0
    ELSE LET a == CHOOSE x \in S : TRUE IN f[a] + SumOver(S \ {a}, f)

TotalNodes(d) == SumOver(AxesOf(d), [a \in AxesOf(d) |-> NodeCount(d, a)])

ElementsOfClass(surface, class) ==
    SelectSeq(surface, LAMBDA e : GetAttr(e, "class") = Str(class))

\* C12: once plotNodes has run on a document, it has not raised and the
\* surface holds exactly as many circles of class "node" as the axes have
\* nodes in total, and nothing else; an axis without nodes adds none.
C12_OneCirclePerNode ==
    pc = "done" =>
        /\ ~threw
        /\ Len(ElementsOfClass(svg, "node")) = TotalNodes(data)
        /\ Len(svg) = TotalNodes(data)
        /\ \A i \in DOMAIN svg : svg[i].tag = "circle"

\* two axes, one of them without nodes, the other with MaxNodes nodes
C12_Witness ==
    /\ pc = "done"
    /\ AxesOf(data) = AxisNames
    /\ NodeCount(data, "A") = 0
    /\ NodeCount(data, "B") = MaxNodes
    /\ Len(ElementsOfClass(svg, "node")) = MaxNodes


-----------------------------------------------------------------------------
(* plotLabels. Angles and spans are numbers of tenths of a degree.         *)

DefaultLabelsBuffer == 11
DefaultFontSize == 140
DefaultHorizontalAngleSpan == 600
DefaultVerticalAngleSpan == 600

\* const {name = dflt} = options: the default stands in for undefined only
OptionOr(options, name, dflt) ==
    IF GetProp(options, name) = Undefined THEN dflt ELSE GetProp(options, name)

\* ToNumber of a value that takes part in a comparison: null counts as 0
ToNumber(v) == IF v = Null THEN Num(0) ELSE v

\* a >= b and a <= b of JavaScript: false unless both sides are numbers
Geq(a, b) == a.t = "num" /\ b.t = "num" /\ a.v >= b.v
Leq(a, b) == a.t = "num" /\ b.t = "num" /\ a.v <= b.v
Gt(a, b) == a.t = "num" /\ b.t = "num" /\ a.v > b.v
Lt(a, b) == a.t = "num" /\ b.t = "num" /\ a.v < b.v

\* c + span and c - span for a literal c (in tenths)
Plus(c, span) == IF ToNumber(span).t = "num" THEN Num(c + ToNumber(span).v) ELSE NaN
Minus(c, span) == IF ToNumber(span).t = "num" THEN Num(c - ToNumber(span).v) ELSE NaN

\* A slip: the zone boundaries are left out (> and < for >= and <=).
TextAnchor_strict(angle, horizontalAngleSpan) ==
    IF Gt(ToNumber(angle), Minus(3600, horizontalAngleSpan))
        \/ Lt(ToNumber(angle), ToNumber(horizontalAngleSpan))
    THEN Str("start")
    ELSE IF Gt(ToNumber(angle), Minus(1800, horizontalAngleSpan))
            /\ Lt(ToNumber(angle), Plus(1800, horizontalAngleSpan))
    THEN Str("end")
    ELSE Str("middle")

\* text-anchor from the angle
TextAnchor(angle, horizontalAngleSpan) ==
    IF Geq(ToNumber(angle), Minus(3600, horizontalAngleSpan))
        \/ Leq(ToNumber(angle), ToNumber(horizontalAngleSpan))
    THEN Str("start")
    ELSE IF Geq(ToNumber(angle), Minus(1800, horizontalAngleSpan))
            /\ Leq(ToNumber(angle), Plus(1800, horizontalAngleSpan))
    THEN Str("end")
    ELSE Str("middle")

\* A slip: the zones of 90 and 270 degrees are exchanged.
DominantBaseline_swapped(angle, verticalAngleSpan) ==
    IF Geq(ToNumber(angle), Minus(2700, verticalAngleSpan))
        /\ Leq(ToNumber(angle), Plus(2700, verticalAngleSpan))
    THEN Str("auto")
    ELSE IF Geq(ToNumber(angle), Minus(900, verticalAngleSpan))
            /\ Leq(ToNumber(angle), Plus(900, verticalAngleSpan))
    THEN Str("hanging")
    ELSE Str("middle")

\* dominant-baseline from the angle
DominantBaseline(angle, verticalAngleSpan) ==
    IF Geq(ToNumber(angle), Minus(900, verticalAngleSpan))
        /\ Leq(ToNumber(angle), Plus(900, verticalAngleSpan))
    THEN Str("auto")
    ELSE IF Geq(ToNumber(angle), Minus(2700, verticalAngleSpan))
            /\ Leq(ToNumber(angle), Plus(2700, verticalAngleSpan))
    THEN Str("hanging")
    ELSE Str("middle")

\* start[k] + labelsBuffer * (end[k] - start[k]), in hundredths
LabelCoord(start, end, labelsBuffer, k) ==
    LET s == ArrayAt(start, k)
        e == ArrayAt(end, k)
    IN  IF s.t = "num" /\ e.t = "num" /\ ToNumber(labelsBuffer).t = "num"
        THEN [t |-> "num100", v |-> 10 * s.v + ToNumber(labelsBuffer).v * (e.v - s.v)]
        ELSE NaN

\* selection.text(value)
SetText(el, value) ==
    [tag |-> el.tag, datum |-> el.datum, attrs |-> el.attrs, text |-> value]

\* the text element appended for an axis that has an angle
LabelElement(axisName, axisData, options) ==
    LET longName == OrElse(GetProp(axisData, "long_name"), Str(axisName))
        angle == GetProp(axisData, "angle")
        start == GetProp(axisData, "start")
        end == GetProp(axisData, "end")
        labelsBuffer == OptionOr(options, "labelsBuffer", Num(DefaultLabelsBuffer))
        fontSize == OptionOr(options, "fontSize", Num(DefaultFontSize))
        h == OptionOr(options, "horizontalAngleSpan", Num(DefaultHorizontalAngleSpan))
        v == OptionOr(options, "verticalAngleSpan", Num(DefaultVerticalAngleSpan))
        t0 == NewElement("text", Undefined)
        t1 == Attr(t0, "x", Scaled("x", LabelCoord(start, end, labelsBuffer, 0)))
        t2 == Attr(t1, "y", Scaled("y", LabelCoord(start, end, labelsBuffer, 1)))
        t3 == Attr(t2, "text-anchor", TextAnchor(angle, h))
        t4 == Attr(t3, "dominant-baseline", DominantBaseline(angle, v))
        t5 == Attr(t4, "font-size", fontSize)
        t6 == Attr(t5, "class", Str("axis-label"))
    IN  IF ~IsArray(start) \/ ~IsArray(end) THEN [els |-> <<>>, threw |-> TRUE]
        ELSE [els |-> <<SetText(t6, longName)>>, threw |-> FALSE]

\* A slip: break for continue, the loop ends at the first axis without angle.
AfterSkip_break(i, n) == n + 1

\* continue: the loop goes on with the next axis
AfterSkip(i, n) == i + 1

RECURSIVE LabelsLoop(_, _, _, _, _)
LabelsLoop(acc, axes, axisNames, options, i) ==
    IF i > Len(axisNames) THEN [svg |-> acc, threw |-> FALSE]
    ELSE IF GetProp(axes.v[axisNames[i]].v, "angle") = Undefined
    THEN LabelsLoop(acc, axes, axisNames, options, AfterSkip(i, Len(axisNames)))
    ELSE LET e == LabelElement(axisNames[i], axes.v[axisNames[i]].v, options)
         IN  IF e.threw THEN [svg |-> acc, threw |-> TRUE]
             ELSE LabelsLoop(acc \o e.els, axes, axisNames, options, i + 1)

plotLabels(d, surface, options) ==
    IF GetProp(d, "axes").t # "obj" THEN [svg |-> surface, threw |-> TRUE]
    ELSE LabelsLoop(surface, d.axes, ObjectKeys(d.axes), options, 1)


-----------------------------------------------------------------------------
(* The plotLabels harness: one generated document and options object, one  *)
(* call of plotLabels on an empty surface.                                 *)

Deg(d) == Num(10 * d)

LabelAngles ==
    {Deg(a) : a \in {0, 30, 60, 90, 120, 150, 180, 210, 240, 270, 300, 330, 359}}

LongNames == {Absent, Str("Group A"), Str("")}

LabelAxesA ==
    {Absent} \cup {AxisObject(1, an, ln) : an \in LabelAngles \cup {Absent},
                                            ln \in LongNames}

LabelAxesB ==
    {Absent} \cup {AxisObject(1, an, Absent) : an \in LabelAngles \cup {Absent}}

LabelDocuments ==
    {NodeDocument([a \in AxisNames |-> IF a = "A" THEN axA ELSE axB],
                  [a \in AxisNames |-> Absent]) :
        axA \in LabelAxesA, axB \in LabelAxesB}

LabelOptionKeys == {"labelsBuffer", "fontSize", "horizontalAngleSpan", "verticalAngleSpan"}

LabelOptions ==
    {Present([k \in LabelOptionKeys |->
            CASE k = "labelsBuffer" -> lb
              [] k = "fontSize" -> fs
              [] k = "horizontalAngleSpan" -> h
              [] k = "verticalAngleSpan" -> v]) :
        lb \in {Absent, Num(15)}, fs \in {Absent, Num(200)},
        h \in {Absent, Deg(30), Deg(90), Deg(120)},
        v \in {Absent, Deg(30), Deg(90)}}

LabelsCall ==
    /\ data \in LabelDocuments
    /\ opts \in LabelOptions
    /\ svg = <<>>
    /\ threw = FALSE
    /\ pc = "ready"
    /\ container = <<>>
    /\ surfaces = <<>>
    /\ inv = <<>>

CallPlotLabels ==
    /\ pc = "ready"
    /\ LET r == plotLabels(data, svg, opts)
       IN  /\ svg' = r.svg
           /\ threw' = r.threw
    /\ pc' = "done"
    /\ UNCHANGED <<data, normVars, lookupVars, vizVars>>

NextLabels == CallPlotLabels
InitLabels == NormIdle /\ LookupIdle /\ LabelsCall
SpecLabels == InitLabels /\ [][NextLabels]_vars

-----------------------------------------------------------------------------
(* Properties of plotLabels.                                               *)

HasAngle(d, a) == "angle" \in DOMAIN d.axes.v[a].v

AxesWithAngle(d) == {a \in AxesOf(d) : HasAngle(d, a)}

\* the name shown for an axis: its long_name, or its key
ShownName(d, a) ==
    IF "long_name" \in DOMAIN d.axes.v[a].v /\ d.axes.v[a].v.long_name # Str("")
    THEN d.axes.v[a].v.long_name ELSE Str(a)

\* C13: once plotLabels has run, it has not raised and the surface holds
\* exactly one text of class "axis-label" per axis that has an angle, in the
\* order of the axes, and nothing for an axis without one, whether that axis
\* comes before or after the labelled ones.
C13_OneLabelPerAngledAxis ==
    pc = "done" =>
        /\ ~threw
        /\ Len(svg) = Cardinality(AxesWithAngle(data))
        /\ \A i \in DOMAIN svg :
              svg[i].tag = "text" /\ GetAttr(svg[i], "class") = Str("axis-label")
        /\ LET shown == SelectSeq(ObjectKeys(data.axes),
                                  LAMBDA a : a \in AxesWithAngle(data))
           IN  \A i \in DOMAIN svg : svg[i].text = ShownName(data, shown[i])

\* the first axis has no angle, the second has one and is labelled
C13_Witness ==
    /\ pc = "done"
    /\ AxesOf(data) = AxisNames
    /\ ~HasAngle(data, "A")
    /\ HasAngle(data, "B")
    /\ Len(svg) = 1
    /\ svg[1].text = Str("B")


\* the axes that get a label, in the order of their labels on the surface
LabelledAxes(d) ==
    SelectSeq(ObjectKeys(d.axes), LAMBDA a : a \in AxesWithAngle(d))

AngleOf(d, a) == d.axes.v[a].v.angle.v

\* the span in force: the option when given, else 60 degrees
SpanInForce(name) == IF name \in DOMAIN opts THEN opts[name].v ELSE 600

WithinOf0(a, h) == a <= h \/ 3600 - a <= h
WithinOf(a, center, span) == Abs(a - center) <= span

\* C14: the text-anchor of every label is "start" when its axis's angle is
\* within horizontalAngleSpan of 0 or 360 degrees, else "end" when it is
\* within horizontalAngleSpan of 180 degrees, else "middle"; with the default
\* span, 0 gives start, 120 gives end and 90 gives middle.
C14_TextAnchor ==
    (pc = "done" /\ Len(svg) = Len(LabelledAxes(data))) =>
        \A i \in DOMAIN svg :
            LET a == AngleOf(data, LabelledAxes(data)[i])
                h == SpanInForce("horizontalAngleSpan")
                anchor == GetAttr(svg[i], "text-anchor")
            IN  /\ anchor = IF WithinOf0(a, h) THEN Str("start")
                            ELSE IF WithinOf(a, 1800, h) THEN Str("end")
                            ELSE Str("middle")
                /\ "horizontalAngleSpan" \notin DOMAIN opts =>
                      /\ a = 0 => anchor = Str("start")
                      /\ a = 1200 => anchor = Str("end")
                      /\ a = 900 => anchor = Str("middle")

\* default span: the axis at 120 degrees is anchored at its end, the one at
\* 90 degrees in its middle
C14_Witness ==
    /\ pc = "done"
    /\ "horizontalAngleSpan" \notin DOMAIN opts
    /\ Len(svg) = 2
    /\ AngleOf(data, "A") = 1200
    /\ AngleOf(data, "B") = 900
    /\ GetAttr(svg[1], "text-anchor") = Str("end")
    /\ GetAttr(svg[2], "text-anchor") = Str("middle")

\* C15: the dominant-baseline of every label is "auto" when its axis's angle
\* is within verticalAngleSpan of 90 degrees, else "hanging" when it is
\* within verticalAngleSpan of 270 degrees, else "middle", whatever the other
\* options, the axis's name and the other axes are.
C15_DominantBaseline ==
    (pc = "done" /\ Len(svg) = Len(LabelledAxes(data))) =>
        \A i \in DOMAIN svg :
            LET a == AngleOf(data, LabelledAxes(data)[i])
                v == SpanInForce("verticalAngleSpan")
            IN  GetAttr(svg[i], "dominant-baseline") =
                    IF WithinOf(a, 900, v) THEN Str("auto")
                    ELSE IF WithinOf(a, 2700, v) THEN Str("hanging")
                    ELSE Str("middle")

\* a span of 30 degrees: the axis at 300 degrees hangs, the one at 150
\* degrees is centered, with a horizontal span that is not the default
C15_Witness ==
    /\ pc = "done"
    /\ "verticalAngleSpan" \in DOMAIN opts
    /\ opts.verticalAngleSpan = Deg(30)
    /\ "horizontalAngleSpan" \in DOMAIN opts
    /\ Len(svg) = 2
    /\ AngleOf(data, "A") = 3000
    /\ AngleOf(data, "B") = 1500
    /\ GetAttr(svg[1], "dominant-baseline") = Str("hanging")
    /\ GetAttr(svg[2], "dominant-baseline") = Str("middle")


-----------------------------------------------------------------------------
(* visualizeHivePlot: the invocations, their draw surfaces and the fetches *)
(* in flight.                                                              *)

\* at most MaxInvocations calls of visualizeHivePlot are made
MaxInvocations == 2

\* A slip: labels are off unless asked for.
DefaultShowLabels_off == Bool(FALSE)

\* showLabels = true
DefaultShowLabels == Bool(TRUE)

\* A slip: the axes are drawn before the edges.
Render_axesfirst(doc, surface, options) ==
    LET showLabels == OptionOr(options, "showLabels", DefaultShowLabels)
        labelOptions ==
            [k \in {"labelsBuffer", "fontSize"} |->
                IF k = "labelsBuffer"
                THEN OptionOr(options, "labelsBuffer", Num(DefaultLabelsBuffer))
                ELSE OptionOr(options, "fontSize", Num(DefaultFontSize))]
        afterAxes == {plotAxes(doc, surface)}
        afterEdges == {IF a.threw THEN a ELSE plotEdges(doc, a.svg) : a \in afterAxes}
        afterNodes == {IF e.threw THEN e ELSE plotNodes(doc, e.svg) : e \in afterEdges}
        afterLabels == {IF n.threw \/ ~Truthy(showLabels) THEN n
                        ELSE plotLabels(doc, n.svg, labelOptions) : n \in afterNodes}
    IN  CHOOSE r \in afterLabels : TRUE

\* A slip: what a renderer raises is caught and the next renderer runs.
Render_swallows(doc, surface, options) ==
    LET showLabels == OptionOr(options, "showLabels", DefaultShowLabels)
        labelOptions ==
            [k \in {"labelsBuffer", "fontSize"} |->
                IF k = "labelsBuffer"
                THEN OptionOr(options, "labelsBuffer", Num(DefaultLabelsBuffer))
                ELSE OptionOr(options, "fontSize", Num(DefaultFontSize))]
        afterEdges == {plotEdges(doc, surface)}
        afterAxes == {[svg |-> plotAxes(doc, e.svg).svg, threw |-> e.threw] :
                         e \in afterEdges}
        afterNodes == {[svg |-> plotNodes(doc, a.svg).svg, threw |-> a.threw] :
                          a \in afterAxes}
        afterLabels == {IF ~Truthy(showLabels) THEN n
                        ELSE [svg |-> plotLabels(doc, n.svg, labelOptions).svg,
                              threw |-> n.threw] : n \in afterNodes}
    IN  CHOOSE r \in afterLabels : TRUE

\* the render closure: the four renderers in their order on one surface; a
\* renderer that raises ends it. Each stage is the one-element set of the
\* surface and outcome left by the calls so far.
Render(doc, surface, options) ==
    LET showLabels == OptionOr(options, "showLabels", DefaultShowLabels)
        labelOptions ==
            [k \in {"labelsBuffer", "fontSize"} |->
                IF k = "labelsBuffer"
                THEN OptionOr(options, "labelsBuffer", Num(DefaultLabelsBuffer))
                ELSE OptionOr(options, "fontSize", Num(DefaultFontSize))]
        afterEdges == {plotEdges(doc, surface)}
        afterAxes == {IF e.threw THEN e ELSE plotAxes(doc, e.svg) : e \in afterEdges}
        afterNodes == {IF a.threw THEN a ELSE plotNodes(doc, a.svg) : a \in afterAxes}
        afterLabels == {IF n.threw \/ ~Truthy(showLabels) THEN n
                        ELSE plotLabels(doc, n.svg, labelOptions) : n \in afterNodes}
    IN  CHOOSE r \in afterLabels : TRUE

\* A slip: svg is a variable of the module, not of the marcon instance, so
\* that every handle gives the surface rendered last.
SurfaceOf_latest(i, mounted) == mounted

\* svgInputs["svgInfo"].svg(): the surface of invocation i's own marcon
\* instance, whatever was mounted since
SurfaceOf(i, mounted) == i

\* A slip: the document is rendered during the call whatever its origin.
RenderedAtCall_sync(src, doc) == doc

\* what the call itself renders: the in-memory document; nothing for a string
RenderedAtCall(src, doc) == IF src = "url" THEN Absent ELSE doc

\* A slip: a rejection handler that fetches again and renders.
OnRejected_retry(doc, surface, options) == Render(doc, surface, options)

\* there is no rejection handler: nothing runs when the fetch fails
OnRejected(doc, surface, options) == [svg |-> surface, threw |-> FALSE]

\* A slip: the new svg is inserted as the first child of the element.
Mount_first(children, surface) == <<surface>> \o children

\* marcon's render: d3.select(element).append("svg"), the new surface is the
\* last child of the element
Mount(children, surface) == Append(children, surface)

Invocation(src, doc, options, mounted, r) ==
    [src |-> src, doc |-> doc, options |-> options,
     fetch |-> IF src = "url" THEN "pending" ELSE "none",
     outcome |-> IF r.threw THEN "threw" ELSE "returned",
     handle |-> IF r.threw THEN 0 ELSE SurfaceOf(mounted, mounted),
     renders |-> IF RenderedAtCall(src, doc) = Absent THEN 0 ELSE 1]

\* one call of visualizeHivePlot, from its first line to its return: the
\* surface is mounted, then the document, if in memory, is rendered on it
VisualizeHivePlot(src, doc, options) ==
    /\ Len(inv) < MaxInvocations
    /\ \E mounted \in {Len(container) + 1} :
       \E r \in {IF RenderedAtCall(src, doc) = Absent
                 THEN [svg |-> <<>>, threw |-> FALSE]
                 ELSE Render(RenderedAtCall(src, doc), <<>>, options)} :
          /\ container' = Mount(container, mounted)
          /\ surfaces' = [Append(surfaces, <<>>) EXCEPT
                             ![SurfaceOf(mounted, mounted)] = r.svg]
          /\ inv' = Append(inv, Invocation(src, doc, options, mounted, r))
    /\ UNCHANGED <<opts, normVars, lookupVars, edgeVars>>

\* d3.json resolves: the continuation of invocation i runs, once
FetchResolve(i) ==
    /\ inv[i].fetch = "pending"
    /\ \E target \in {SurfaceOf(i, Len(container))} :
       \E r \in {Render(inv[i].doc, surfaces[target], inv[i].options)} :
          surfaces' = [surfaces EXCEPT ![target] = r.svg]
    /\ inv' = [inv EXCEPT ![i].fetch = "resolved", ![i].renders = @ + 1]
    /\ UNCHANGED <<opts, container, normVars, lookupVars, edgeVars>>

\* d3.json rejects
FetchReject(i) ==
    /\ inv[i].fetch = "pending"
    /\ \E target \in {SurfaceOf(i, Len(container))} :
       \E r \in {OnRejected(inv[i].doc, surfaces[target], inv[i].options)} :
          surfaces' = [surfaces EXCEPT ![target] = r.svg]
    /\ inv' = [inv EXCEPT ![i].fetch = "rejected"]
    /\ UNCHANGED <<opts, container, normVars, lookupVars, edgeVars>>

\* the documents handed over or served: axis A with an angle and no or
\* MaxNodes nodes, alone or with an axis B without angle and MaxEdges edges
VizDocument(nA, withB) ==
    Present([k \in {"axes", "edges"} |->
        IF k = "axes"
        THEN Obj(Present([a \in AxisNames |->
                 IF a = "A" THEN AxisObject(nA, Deg(0), Str("Group A"))
                 ELSE IF withB THEN AxisObject(1, Absent, Absent) ELSE Absent]))
        ELSE IF withB
        THEN EdgesObject([s \in Slots |->
                 IF s = OneSlot THEN EdgeGroup(s, MaxEdges, Absent) ELSE Absent])
        ELSE Absent])

VizDocuments == {VizDocument(nA, withB) : nA \in {0, MaxNodes}, withB \in BOOLEAN}

VizOptions ==
    {EmptyObject,
     [k \in {"showLabels"} |-> Bool(FALSE)],
     [k \in {"showLabels", "fontSize"} |->
         IF k = "showLabels" THEN Bool(TRUE) ELSE Num(200)]}

Call ==
    \E src \in {"memory", "url"}, doc \in VizDocuments, options \in VizOptions :
        VisualizeHivePlot(src, doc, options)

Resolve == \E i \in DOMAIN inv : FetchResolve(i)

Reject == \E i \in DOMAIN inv : FetchReject(i)

NextViz == Call \/ Resolve \/ Reject
InitViz == NormIdle /\ LookupIdle /\ EdgeIdle /\ VizIdle
SpecViz == InitViz /\ [][NextViz]_vars


-----------------------------------------------------------------------------
(* Properties of visualizeHivePlot.                                        *)

GroupsOf(d) ==
    IF "edges" \notin DOMAIN d THEN {}
    ELSE {s \in Slots : /\ s[1] \in DOMAIN d.edges.v
                        /\ s[2] \in DOMAIN d.edges.v[s[1]].v
                        /\ s[3] \in DOMAIN d.edges.v[s[1]].v[s[2]].v}

TotalEdges(d) ==
    SumOver(GroupsOf(d),
            [s \in GroupsOf(d) |-> IdsLength(d.edges.v[s[1]].v[s[2]].v[s[3]].v)])

CountOf(surface, class) == Len(ElementsOfClass(surface, class))

LabelsAsked(options) ==
    "showLabels" \notin DOMAIN options \/ options.showLabels = Bool(TRUE)

\* the surface holds the primitives of the document and no others
HoldsDocument(surface, d, options) ==
    /\ CountOf(surface, "axis") = Cardinality(AxesOf(d))
    /\ CountOf(surface, "node") = TotalNodes(d)
    /\ CountOf(surface, "edge") = TotalEdges(d)
    /\ CountOf(surface, "axis-label") =
          IF LabelsAsked(options) THEN Cardinality(AxesWithAngle(d)) ELSE 0
    /\ Len(surface) = CountOf(surface, "axis") + CountOf(surface, "node")
                        + CountOf(surface, "edge") + CountOf(surface, "axis-label")

\* C16: a call with an in-memory document has returned its own surface, and
\* from the return on that surface holds one axis per axis, one node per
\* node, one edge per edge and, with showLabels true or left out, one
\* axis-label per axis with an angle; with showLabels false it holds no
\* axis-label and the same axis, node and edge primitives.
C16_InMemoryRenderedAtReturn ==
    \A i \in DOMAIN inv :
        inv[i].src = "memory" =>
            /\ inv[i].outcome = "returned"
            /\ inv[i].handle = i
            /\ HoldsDocument(surfaces[i], inv[i].doc, inv[i].options)

\* the same document rendered with labels by default and without
C16_Witness ==
    /\ Len(inv) = 2
    /\ inv[1].src = "memory" /\ inv[2].src = "memory"
    /\ inv[1].doc = inv[2].doc
    /\ TotalNodes(inv[1].doc) > 1 /\ TotalEdges(inv[1].doc) > 0
    /\ inv[1].options = EmptyObject
    /\ ~LabelsAsked(inv[2].options)
    /\ CountOf(surfaces[1], "axis-label") = 1
    /\ CountOf(surfaces[2], "axis-label") = 0
    /\ CountOf(surfaces[2], "edge") = CountOf(surfaces[1], "edge")
    /\ Len(surfaces[1]) = Len(surfaces[2]) + 1

\* C17: a call with a string has returned its own surface; while the fetch is
\* pending that surface is empty and the continuation has not run; once the
\* fetch has resolved the continuation has run exactly once and that surface
\* holds the primitives of the fetched document.
C17_UrlRenderedOnResolve ==
    \A i \in DOMAIN inv :
        inv[i].src = "url" =>
            /\ inv[i].outcome = "returned"
            /\ inv[i].handle = i
            /\ inv[i].fetch = "pending" =>
                  surfaces[i] = <<>> /\ inv[i].renders = 0
            /\ inv[i].fetch = "resolved" =>
                  /\ inv[i].renders = 1
                  /\ HoldsDocument(surfaces[i], inv[i].doc, inv[i].options)

\* a fetch has resolved and filled its surface; another is still pending
C17_Witness ==
    /\ Len(inv) = 2
    /\ inv[1].src = "url" /\ inv[1].fetch = "resolved" /\ inv[1].renders = 1
    /\ CountOf(surfaces[1], "node") = MaxNodes + 1
    /\ inv[2].src = "url" /\ inv[2].fetch = "pending"
    /\ surfaces[2] = <<>>

\* C18: in every step that leaves a fetch failed, or finds it failed, the
\* invocation has returned its surface normally, the surface is empty after
\* the step, the continuation has not run, and the fetch stays failed.
C18_RejectedNeverRenders ==
    [][\A i \in DOMAIN inv :
          /\ inv'[i].fetch = "rejected" =>
                /\ surfaces'[i] = <<>>
                /\ inv'[i].renders = 0
                /\ inv'[i].outcome = "returned"
                /\ inv'[i].handle = i
          /\ inv[i].fetch = "rejected" => inv'[i].fetch = "rejected"]_vars

\* a fetch failed, and a later call rendered its own document next to it
C18_Witness ==
    /\ Len(inv) = 2
    /\ inv[1].fetch = "rejected"
    /\ inv[1].renders = 0
    /\ surfaces[1] = <<>>
    /\ inv[2].src = "memory"
    /\ surfaces[2] # <<>>

\* what invocation i renders when it is the only one
Alone(i) ==
    IF inv[i].src = "memory" \/ inv[i].fetch = "resolved"
    THEN Render(inv[i].doc, <<>>, inv[i].options).svg
    ELSE <<>>

\* C19: every invocation mounted one surface of its own, and whatever the
\* order of the calls and of the fetch completions, each surface holds what
\* its invocation renders when run alone.
C19_SurfacesIsolated ==
    /\ Len(surfaces) = Len(inv)
    /\ container = [i \in DOMAIN inv |-> i]
    /\ \A i \in DOMAIN inv : surfaces[i] = Alone(i)

\* two fetches of different documents, both resolved
C19_Witness ==
    /\ Len(inv) = 2
    /\ inv[1].src = "url" /\ inv[2].src = "url"
    /\ inv[1].fetch = "resolved" /\ inv[2].fetch = "resolved"
    /\ inv[1].doc # inv[2].doc
    /\ surfaces[1] # surfaces[2]
    /\ surfaces[1] # <<>> /\ surfaces[2] # <<>>


-----------------------------------------------------------------------------
(* The document after a render pass: the renderers hand the document's own *)
(* style dictionaries (reference 1 of a one-object heap) to the            *)
(* normalizers, so each dictionary is what the call left at that reference.*)

\* edgeInfo.edge_kwargs after normalizeEdgeKwargs(edgeInfo.edge_kwargs || {})
EdgeKwargsAfter(raw) == normalizeEdgeKwargs(<<raw>>, 1).heap[1]

\* data.node_viz_kwargs[axisName] after normalizeNodeKwargs(...) of it
NodeKwargsAfter(raw) == normalizeNodeKwargs(<<raw>>, 1).heap[1]

\* an EdgeGroup after the tag loop's body: groups without ids are skipped
\* before the normalizer is called
GroupAfter(g) ==
    IF Truthy(GetProp(g, "ids")) /\ Len(g.ids.v) > 0 /\ "edge_kwargs" \in DOMAIN g
    THEN [g EXCEPT !.edge_kwargs = Obj(EdgeKwargsAfter(g.edge_kwargs.v))]
    ELSE g

EdgesAfter(edges) ==
    Obj([a \in DOMAIN edges.v |->
        Obj([b \in DOMAIN edges.v[a].v |->
            Obj([g \in DOMAIN edges.v[a].v[b].v |->
                Obj(GroupAfter(edges.v[a].v[b].v[g].v))])])])

NodeVizKwargsAfter(d) ==
    Obj([a \in DOMAIN d.node_viz_kwargs.v |->
            IF a \in DOMAIN d.axes.v
            THEN Obj(NodeKwargsAfter(d.node_viz_kwargs.v[a].v))
            ELSE d.node_viz_kwargs.v[a]])

\* the document as plotEdges, plotAxes, plotNodes and plotLabels leave it
DocumentAfterRender(d) ==
    [k \in DOMAIN d |->
        CASE k = "edges" -> EdgesAfter(d.edges)
          [] k = "node_viz_kwargs" -> NodeVizKwargsAfter(d)
          [] OTHER -> d[k]]

-----------------------------------------------------------------------------
(* The render harness: one styled document, one run of the render closure  *)
(* on an empty surface.                                                    *)

\* two styled axes and two styled edge groups, each with its own arrays
IndexedDocuments ==
    {Present([k \in {"axes", "node_viz_kwargs", "edges"} |->
        CASE k = "axes" ->
                Obj([a \in AxisNames |-> AxisObject(MaxNodes, Absent, Absent)])
          [] k = "node_viz_kwargs" ->
                Obj([a \in AxisNames |->
                    Obj([key \in {"alpha", "s"} |->
                        IF key = "alpha"
                        THEN Ramp(MaxNodes, IF a = "A" THEN 1 ELSE stepB)
                        ELSE Ramp(MaxNodes, IF a = "A" THEN 100 ELSE 100 * stepB)])])
          [] k = "edges" ->
                EdgesObject([s \in Slots |->
                    IF s[1] = "A"
                    THEN EdgeGroup(s, MaxEdges,
                             Obj([key \in {"alpha", "lw"} |->
                                 IF key = "alpha"
                                 THEN Ramp(MaxEdges, IF s[3] = "t1" THEN 1 ELSE stepB)
                                 ELSE Ramp(MaxEdges, IF s[3] = "t1" THEN 10
                                                     ELSE 10 * stepB)]))
                    ELSE Absent])]) :
        stepB \in {2, 3}}

RenderCall ==
    /\ data \in StyledDocuments \cup StyledNodeDocuments \cup IndexedDocuments
    /\ opts \in VizOptions
    /\ svg = <<>>
    /\ threw = FALSE
    /\ pc = "ready"
    /\ container = <<>>
    /\ surfaces = <<>>
    /\ inv = <<>>

CallRender ==
    /\ pc = "ready"
    /\ \E r \in {Render(data, svg, opts)} :
          /\ svg' = r.svg
          /\ threw' = r.threw
    /\ data' = DocumentAfterRender(data)
    /\ pc' = "done"
    /\ UNCHANGED <<normVars, lookupVars, vizVars>>

NextRender == CallRender
InitRender == NormIdle /\ LookupIdle /\ RenderCall
SpecRender == InitRender /\ [][NextRender]_vars

-----------------------------------------------------------------------------
(* Style arrays shorter than their elements.                               *)

StyledAxes(d) ==
    IF "node_viz_kwargs" \in DOMAIN d
    THEN AxesOf(d) \cap DOMAIN d.node_viz_kwargs.v ELSE {}

\* the per-node keys of axis a's node_viz_kwargs that hold an array shorter
\* than the axis has nodes
ShortNodeArrays(d, a) ==
    {k \in DOMAIN d.node_viz_kwargs.v[a].v \cap {"s", "alpha", "color", "edgecolor"} :
        /\ IsArray(d.node_viz_kwargs.v[a].v[k])
        /\ Len(d.node_viz_kwargs.v[a].v[k].v) < NodeCount(d, a)}

EdgeKwargsOf(d, s) ==
    IF "edge_kwargs" \in DOMAIN d.edges.v[s[1]].v[s[2]].v[s[3]].v
    THEN d.edges.v[s[1]].v[s[2]].v[s[3]].v.edge_kwargs.v ELSE EmptyObject

EdgeCountOf(d, s) == IdsLength(d.edges.v[s[1]].v[s[2]].v[s[3]].v)

\* the per-edge keys of the edge_kwargs of the group at s that hold an array
\* shorter than the group has edges
ShortEdgeArrays(d, s) ==
    {k \in DOMAIN EdgeKwargsOf(d, s) \cap {"array", "color", "alpha"} :
        /\ IsArray(EdgeKwargsOf(d, s)[k])
        /\ Len(EdgeKwargsOf(d, s)[k].v) < EdgeCountOf(d, s)}

HasShortArray(d) ==
    \/ \E a \in StyledAxes(d) : ShortNodeArrays(d, a) # {}
    \/ \E s \in GroupsOf(d) : ShortEdgeArrays(d, s) # {}

\* C20 as stated: when a per-element style array is shorter than the nodes of
\* its axis or the edges of its group, rendering ends by raising.
C20_ShortArrayRaises ==
    (pc = "done" /\ HasShortArray(data)) => threw

\* the circle of node j (from 0) of axis a: the axes' circles follow each
\* other in the order of the axes
CircleOf(d, a, j) ==
    LET before == {b \in AxesOf(d) :
                      \E p, q \in DOMAIN KeyOrder :
                          p < q /\ KeyOrder[p] = b /\ KeyOrder[q] = a}
        offset == SumOver(before, [b \in before |-> NodeCount(d, b)])
    IN  ElementsOfClass(svg, "node")[offset + j + 1]

\* the path of edge j (from 0) of the group at s
PathOf(s, j) ==
    CHOOSE e \in {svg[i] : i \in DOMAIN svg} :
        GetAttr(e, "class") = Str("edge") /\ e.datum = Curve(<<s, j>>)

\* what a short array leaves on the circle of a node beyond its end
NodeKeyLeftOut(k, circle) ==
    CASE k = "s" -> GetAttr(circle, "r") = NaN
      [] k = "alpha" -> GetAttr(circle, "fill-opacity") = Undefined
      [] k = "color" -> GetAttr(circle, "fill") = Undefined
      [] k = "edgecolor" -> GetAttr(circle, "stroke") = Undefined

\* what a short array leaves on the path of an edge beyond its end; color
\* takes no part where a colormap array is given
EdgeKeyLeftOut(k, kwargs, path) ==
    CASE k = "array" -> GetAttr(path, "stroke") = Undefined
      [] k = "color" -> "array" \in DOMAIN kwargs \/ GetAttr(path, "stroke") = Undefined
      [] k = "alpha" -> GetAttr(path, "stroke-opacity") = Undefined

\* C20 as amended: when a per-element style array is shorter than the nodes
\* of its axis or the edges of its group, rendering completes without
\* raising, every node and edge is emitted, and on each element beyond the
\* array's end the attribute the array drives is absent (the radius is NaN
\* for s).
C20_ShortArrayLeavesUnset ==
    (pc = "done" /\ HasShortArray(data)) =>
        /\ ~threw
        /\ CountOf(svg, "node") = TotalNodes(data)
        /\ CountOf(svg, "edge") = TotalEdges(data)
        /\ \A a \in StyledAxes(data) : \A k \in ShortNodeArrays(data, a) :
              \A j \in Len(data.node_viz_kwargs.v[a].v[k].v)..(NodeCount(data, a) - 1) :
                  NodeKeyLeftOut(k, CircleOf(data, a, j))
        /\ \A s \in GroupsOf(data) : \A k \in ShortEdgeArrays(data, s) :
              \A j \in Len(EdgeKwargsOf(data, s)[k].v)..(EdgeCountOf(data, s) - 1) :
                  EdgeKeyLeftOut(k, EdgeKwargsOf(data, s), PathOf(s, j))

\* an axis of MaxNodes nodes with a size array of one entry: the last circle
\* is there, with a NaN radius
C20_Witness ==
    /\ pc = "done"
    /\ ~threw
    /\ "A" \in StyledAxes(data)
    /\ "s" \in ShortNodeArrays(data, "A")
    /\ NodeCount(data, "A") = MaxNodes
    /\ CountOf(svg, "node") >= MaxNodes
    /\ GetAttr(CircleOf(data, "A", MaxNodes - 1), "r") = NaN


-----------------------------------------------------------------------------
(* Documents with optional data left out, handed to the render harness.    *)

LinestyleCycle == <<"-.", "-", ":", "dashed">>

\* edge_kwargs: absent, empty, or naming a linestyle or colormap that the
\* tables do not hold
OptionalEdgeKwargs ==
    {Absent, Obj(EmptyObject)}
        \cup {Obj([k \in {"linestyle"} |-> Str(ls)]) :
                 ls \in {"wavy", "constructor", "--", "solid", ""}}
        \cup {Obj([k \in {"linestyle"} |->
                      Arr([i \in 1..MaxEdges |-> Str(LinestyleCycle[((i - 1) % 4) + 1])])])}
        \cup {Obj([k \in {"array", "cmap"} |->
                      IF k = "array" THEN Ramp(MaxEdges, 10) ELSE Str(cm)]) :
                 cm \in {"not_a_cmap", "toString"}}

\* data.edges: absent, empty, or one group of no or MaxEdges edges
OptionalEdges ==
    {Absent, Obj(EmptyObject)}
        \cup {EdgesObject([s \in Slots |->
                              IF s = OneSlot THEN EdgeGroup(s, n, kw) ELSE Absent]) :
                 n \in {0, MaxEdges}, kw \in OptionalEdgeKwargs}

\* node_viz_kwargs: absent, given for axis B only, or for axis A with a
\* colormap name that the table does not hold
OptionalNodeKwargs ==
    {[a \in AxisNames |-> Absent],
     [a \in AxisNames |-> IF a = "B" THEN Obj([k \in {"s"} |-> Num(400)]) ELSE Absent],
     [a \in AxisNames |->
         IF a = "A" THEN Obj([k \in {"c", "cmap"} |->
                                 IF k = "c" THEN Ramp(MaxNodes, 10)
                                 ELSE Str("not_a_cmap")])
         ELSE Absent]}

OptionalDocument(axes, nvk, edges) ==
    Present([k \in {"axes", "node_viz_kwargs", "edges"} |->
        CASE k = "axes" -> Obj(Present(axes))
          [] k = "node_viz_kwargs" ->
                IF \A a \in AxisNames : nvk[a] = Absent \/ axes[a] = Absent
                THEN Absent
                ELSE Obj(Present([a \in AxisNames |->
                                     IF axes[a] = Absent THEN Absent ELSE nvk[a]]))
          [] k = "edges" -> edges])

OptionalDocuments ==
    {OptionalDocument([a \in AxisNames |-> IF a = "A" THEN AxisObject(n, an, Absent)
                                           ELSE axB], nvk, edges) :
        n \in {0, MaxNodes}, an \in {Absent, Deg(0)},
        axB \in {Absent, AxisObject(1, Absent, Absent)},
        nvk \in OptionalNodeKwargs, edges \in OptionalEdges}

OptionalCall ==
    /\ data \in OptionalDocuments
    /\ opts \in VizOptions
    /\ svg = <<>>
    /\ threw = FALSE
    /\ pc = "ready"
    /\ container = <<>>
    /\ surfaces = <<>>
    /\ inv = <<>>

InitOptional == NormIdle /\ LookupIdle /\ OptionalCall
SpecOptional == InitOptional /\ [][NextRender]_vars

-----------------------------------------------------------------------------
(* Missing optional data.                                                  *)

NodeKwargsOf(d, a) ==
    IF a \in StyledAxes(d) THEN d.node_viz_kwargs.v[a].v ELSE EmptyObject

\* the circles of axis a, which follow those of the axes before it
CirclesOf(d, a) ==
    {CircleOf(d, a, j) : j \in 0..(NodeCount(d, a) - 1)}

PathsIn(d, s) == {PathOf(s, j) : j \in 0..(EdgeCountOf(d, s) - 1)}

\* the documented defaults of an edge whose group gives no style at all
EdgeDefaults(path) ==
    /\ GetAttr(path, "stroke") = Str("black")
    /\ GetAttr(path, "stroke-opacity") = Num(DefaultEdgeAlpha)
    /\ GetAttr(path, "stroke-width") = Num(DefaultLinewidth)
    /\ GetAttr(path, "stroke-dasharray") = Undefined

\* the documented defaults of a node whose axis gives no style at all
NodeDefaults(circle) ==
    /\ GetAttr(circle, "fill") = Str("black")
    /\ GetAttr(circle, "fill-opacity") = Num(DefaultNodeAlpha)
    /\ GetAttr(circle, "r") = [t |-> "sqrtOverPi", v |-> DefaultNodeSize]
    /\ GetAttr(circle, "stroke") = Str("none")

IsColorOf(color, interp) ==
    color # Undefined /\ color.t = "color" /\ color.interp = interp

\* C21: a render of a document that only lacks optional data does not raise
\* and emits every primitive; an edge or node without style has the default
\* attributes, an edge whose linestyle is not in the table has no
\* stroke-dasharray, and a colormap name that is not in the table colors
\* with viridis.
C21_OptionalDataDefaults ==
    pc = "done" =>
        /\ ~threw
        /\ HoldsDocument(svg, data, opts)
        /\ \A s \in GroupsOf(data) : \A path \in PathsIn(data, s) :
              LET kw == EdgeKwargsOf(data, s)
              IN  /\ kw = EmptyObject => EdgeDefaults(path)
                  /\ ("linestyle" \in DOMAIN kw /\ kw.linestyle.t = "str"
                        /\ kw.linestyle.v \notin DOMAIN LinestyleMap)
                       => GetAttr(path, "stroke-dasharray") = Undefined
                  /\ ("cmap" \in DOMAIN kw /\ kw.cmap.v \notin DOMAIN CmapMap)
                       => IsColorOf(GetAttr(path, "stroke"), Fn("Viridis"))
        /\ \A a \in AxesOf(data) : \A circle \in CirclesOf(data, a) :
              LET kw == NodeKwargsOf(data, a)
              IN  /\ kw = EmptyObject => NodeDefaults(circle)
                  /\ ("cmap" \in DOMAIN kw /\ kw.cmap.v \notin DOMAIN CmapMap)
                       => IsColorOf(GetAttr(circle, "fill"), Fn("Viridis"))


-----------------------------------------------------------------------------
(* The input document across a render pass (checked under SpecRender).     *)

\* C22: no step of a render pass changes the document: every style
\* dictionary of node_viz_kwargs and every edge_kwargs keeps its keys,
\* aliases included, and its values, and axes, nodes, ids and curves stay
\* as they were.
C22_DocumentUnchanged == [][data' = data]_vars

\* a render used the width given under the alias lw, which the document
\* still holds under that name
C22_Witness ==
    /\ pc = "done"
    /\ \E s \in GroupsOf(data) :
          /\ "lw" \in DOMAIN EdgeKwargsOf(data, s)
          /\ "linewidth" \notin DOMAIN EdgeKwargsOf(data, s)
          /\ EdgeCountOf(data, s) > 0
          /\ GetAttr(PathOf(s, 0), "stroke-width") = EdgeKwargsOf(data, s).lw


-----------------------------------------------------------------------------
(* The scalar-or-array rule (checked under SpecRender).                    *)

\* the style value for element j (from 0) of its group: entry j of an
\* array, the scalar itself, the default for an absent key
StyleValue(kw, key, j, dflt) ==
    IF key \notin DOMAIN kw THEN Num(dflt)
    ELSE IF kw[key].t = "arr" THEN kw[key].v[j + 1]
    ELSE kw[key]

\* the key that gives the line width: linewidth, else its alias lw
WidthKey(kw) == IF "linewidth" \in DOMAIN kw THEN "linewidth" ELSE "lw"

\* element j is within the array under key, or the key holds no array
InRange(kw, key, j) ==
    key \notin DOMAIN kw \/ kw[key].t # "arr" \/ j < Len(kw[key].v)

\* C23: for edge j of a group, stroke-opacity and stroke-width are entry j
\* of the group's alpha and linewidth arrays, the scalar itself (0 included)
\* or the defaults 0.5 and 1.5 when the key is absent; for node j of an
\* axis, fill-opacity and the radius follow alpha and s in the same way with
\* the defaults 0.8 and 20; j counts within the group or axis.
C23_ScalarOrArray ==
    pc = "done" =>
        /\ \A s \in GroupsOf(data) : \A j \in 0..(EdgeCountOf(data, s) - 1) :
              LET kw == EdgeKwargsOf(data, s)
              IN  /\ InRange(kw, "alpha", j) =>
                        GetAttr(PathOf(s, j), "stroke-opacity")
                            = StyleValue(kw, "alpha", j, DefaultEdgeAlpha)
                  /\ InRange(kw, WidthKey(kw), j) =>
                        GetAttr(PathOf(s, j), "stroke-width")
                            = StyleValue(kw, WidthKey(kw), j, DefaultLinewidth)
        /\ \A a \in AxesOf(data) : \A j \in 0..(NodeCount(data, a) - 1) :
              LET kw == NodeKwargsOf(data, a)
              IN  /\ InRange(kw, "alpha", j) =>
                        GetAttr(CircleOf(data, a, j), "fill-opacity")
                            = StyleValue(kw, "alpha", j, DefaultNodeAlpha)
                  /\ InRange(kw, "s", j) =>
                        GetAttr(CircleOf(data, a, j), "r")
                            = [t |-> "sqrtOverPi",
                               v |-> StyleValue(kw, "s", j, DefaultNodeSize).v]

\* the second axis and the second edge group take the first entries of
\* their own arrays for their first elements
C23_Witness ==
    /\ pc = "done"
    /\ data \in IndexedDocuments
    /\ GetAttr(CircleOf(data, "B", 0), "fill-opacity")
          = data.node_viz_kwargs.v.B.v.alpha.v[1]
    /\ GetAttr(CircleOf(data, "B", 0), "fill-opacity")
          # GetAttr(CircleOf(data, "A", 0), "fill-opacity")
    /\ GetAttr(PathOf(<<"A", "B", "t2">>, 0), "stroke-width")
          = data.edges.v.A.v.B.v.t2.v.edge_kwargs.v.lw.v[1]
    /\ GetAttr(PathOf(<<"A", "B", "t2">>, 0), "stroke-width")
          # GetAttr(PathOf(<<"A", "B", "t1">>, 0), "stroke-width")


-----------------------------------------------------------------------------
(* The dash attribute of an edge (checked under SpecOptional).             *)

\* the pattern of the dashed, dotted and dash-dot forms; Undefined for
\* every other string
DashPattern(name) ==
    CASE name \in {"--", "dashed"} -> Str("5,5")
      [] name \in {":", "dotted"} -> Str("2,2")
      [] name \in {"-.", "dashdot"} -> Str("5,2,2,2")
      [] OTHER -> Undefined

\* C24: an edge has a stroke-dasharray attribute exactly when its resolved
\* linestyle (entry j of an array, else the scalar) is a dashed, dotted or
\* dash-dot form, and the attribute is then the table's pattern; without a
\* linestyle key, or for a solid or unknown name, it has none.
C24_DashExactlyWhenDashed ==
    pc = "done" =>
        \A s \in GroupsOf(data) : \A j \in 0..(EdgeCountOf(data, s) - 1) :
            LET kw == EdgeKwargsOf(data, s)
            IN  GetAttr(PathOf(s, j), "stroke-dasharray") =
                    IF "linestyle" \notin DOMAIN kw THEN Undefined
                    ELSE IF kw.linestyle.t = "arr"
                    THEN DashPattern(kw.linestyle.v[j + 1].v)
                    ELSE DashPattern(kw.linestyle.v)


-----------------------------------------------------------------------------
(* The fill of a node (checked under SpecNodes).                           *)

\* the fill given for an axis: under facecolor, else color, else c
GivenFill(kw) ==
    IF "facecolor" \in DOMAIN kw THEN kw.facecolor
    ELSE IF "color" \in DOMAIN kw THEN kw.color
    ELSE IF "c" \in DOMAIN kw THEN kw.c
    ELSE Absent

\* the colormap scale over [lo, hi] applied to x
ScaledColor(kw, fill, x) ==
    LET interp == IF "cmap" \in DOMAIN kw /\ kw.cmap.v \in DOMAIN CmapMap
                  THEN CmapMap[kw.cmap.v] ELSE Fn("Viridis")
        lo == IF "vmin" \in DOMAIN kw THEN kw.vmin.v ELSE SetMin(NumsOf(fill))
        hi == IF "vmax" \in DOMAIN kw THEN kw.vmax.v ELSE SetMax(NumsOf(fill))
    IN  Interpolated(interp, x - lo, hi - lo)

C25_WitnessStrings ==
    /\ pc = "done"
    /\ "A" \in StyledAxes(data)
    /\ NodeCount(data, "A") = MaxNodes
    /\ GivenFill(NodeKwargsOf(data, "A")) = Colors(MaxNodes)
    /\ GetAttr(CircleOf(data, "A", 1), "fill") = Str(ColorNames[2])


-----------------------------------------------------------------------------
(* The text of a label (checked under SpecLabels).                         *)

HasLongName(d, a) == "long_name" \in DOMAIN d.axes.v[a].v

\* C26 as stated: the text of an axis's label is its long_name whenever the
\* field is present, and the axis key only when it is absent.
C26_LongNameWheneverPresent ==
    pc = "done" =>
        \A i \in DOMAIN svg :
            LET a == LabelledAxes(data)[i]
            IN  svg[i].text = IF HasLongName(data, a)
                              THEN data.axes.v[a].v.long_name ELSE Str(a)

\* C26, amended: the text of an axis's label is its long_name when the field
\* is present and not the empty string, and the axis key when it is absent
\* or empty.
C26_LongNameUnlessEmpty ==
    pc = "done" =>
        \A i \in DOMAIN svg :
            LET a == LabelledAxes(data)[i]
            IN  svg[i].text =
                    IF HasLongName(data, a) /\ data.axes.v[a].v.long_name # Str("")
                    THEN data.axes.v[a].v.long_name ELSE Str(a)

\* an axis whose long_name is the empty string is labelled with its key
C26_Witness ==
    /\ pc = "done"
    /\ Len(svg) >= 1
    /\ LabelledAxes(data)[1] = "A"
    /\ HasLongName(data, "A")
    /\ data.axes.v["A"].v.long_name = Str("")
    /\ svg[1].text = Str("A")


-----------------------------------------------------------------------------
(* The order of the primitives on a surface (checked under SpecViz).       *)

\* the place of a primitive's class in the order edges, axes, nodes, labels
LayerOf(el) ==
    CASE GetAttr(el, "class") = Str("edge") -> 1
      [] GetAttr(el, "class") = Str("axis") -> 2
      [] GetAttr(el, "class") = Str("node") -> 3
      [] GetAttr(el, "class") = Str("axis-label") -> 4
      [] OTHER -> 0

\* C27: on every surface, whether its document was in memory or fetched,
\* every edge primitive comes before every axis primitive, every axis
\* before every node and every node before every axis-label.
C27_EdgesAxesNodesLabels ==
    \A i \in DOMAIN surfaces :
        \A p \in DOMAIN surfaces[i], q \in DOMAIN surfaces[i] :
            p < q => /\ LayerOf(surfaces[i][p]) >= 1
                     /\ LayerOf(surfaces[i][p]) <= LayerOf(surfaces[i][q])

\* a fetched document and an in-memory one, each with primitives of all four
\* kinds on its surface
C27_Witness ==
    /\ Len(inv) = 2
    /\ inv[1].src = "url" /\ inv[1].fetch = "resolved"
    /\ inv[2].src = "memory"
    /\ \A i \in {1, 2} : \A class \in {"edge", "axis", "node", "axis-label"} :
          CountOf(surfaces[i], class) > 0


-----------------------------------------------------------------------------
(* normalizeNodeKwargs applied to its own result (checked under SpecNorm). *)

\* C28: normalizeNodeKwargs applied to its own result gives an object equal
\* to that result key for key, in particular with the same _fill.
C28_NodeNormalizeIdempotent ==
    (nKind = "node" /\ Len(nRets) = 2) => nHeap[nRets[2]] = nHeap[nRets[1]]


-----------------------------------------------------------------------------
(* The surfaces in the container (checked under SpecViz).                  *)

\* C29: in every state the container holds the surfaces of all the calls
\* made so far, in the order of the calls, whichever fetches have resolved,
\* been rejected or are still pending.
C29_MountedInCallOrder ==
    /\ Len(container) = Len(inv)
    /\ \A i \in DOMAIN inv : container[i] = i

\* two fetched documents, the second resolved and rendered while the first
\* is still pending: the first surface is there, empty, before the second
C29_Witness ==
    /\ Len(inv) = 2
    /\ inv[1].src = "url" /\ inv[1].fetch = "pending"
    /\ inv[2].src = "url" /\ inv[2].fetch = "resolved"
    /\ container = <<1, 2>>
    /\ surfaces[1] = <<>>
    /\ surfaces[2] # <<>>


-----------------------------------------------------------------------------
(* Documents with an edge group that has ids and no curves.                *)

\* the two groups between A and B, in the order plotEdges visits them
FirstSlot == <<"A", "B", "t1">>
SecondSlot == <<"A", "B", "t2">>

\* one of the two groups has no curves and nb ids, the other is well formed
\* and has n edges
PartialDocuments ==
    {Present([k \in {"axes", "edges"} |->
        IF k = "axes"
        THEN Obj([a \in AxisNames |->
                 IF a = "A" THEN AxisObject(nA, Deg(0), Absent)
                 ELSE AxisObject(1, Absent, Absent)])
        ELSE EdgesObject([s \in Slots |->
                 IF s = at THEN Del(EdgeGroup(s, nb, Absent), "curves")
                 ELSE IF s \in {FirstSlot, SecondSlot} THEN EdgeGroup(s, n, kw)
                 ELSE Absent])]) :
        at \in {FirstSlot, SecondSlot}, nb \in 0..MaxEdges, n \in 1..MaxEdges,
        kw \in PlainKwargs, nA \in {0, MaxNodes}}

PartialCall ==
    /\ data \in PartialDocuments
    /\ opts \in VizOptions
    /\ svg = <<>>
    /\ threw = FALSE
    /\ pc = "ready"
    /\ container = <<>>
    /\ surfaces = <<>>
    /\ inv = <<>>

InitPartial == NormIdle /\ LookupIdle /\ PartialCall
SpecPartial == InitPartial /\ [][NextRender]_vars

GroupOf(d, s) == d.edges.v[s[1]].v[s[2]].v[s[3]].v

\* the groups with edges to draw and no curves to draw them from
Curveless(d) ==
    {s \in GroupsOf(d) : "curves" \notin DOMAIN GroupOf(d, s)
                         /\ IdsLength(GroupOf(d, s)) > 0}

\* the groups plotEdges visits before the group at s
VisitedBefore(d, s) == {x \in GroupsOf(d) : s = SecondSlot /\ x = FirstSlot}

\* C30: once a document with a group that has ids and no curves went
\* through a render call, the call has raised, the surface holds the edge
\* primitives of the groups visited before that group, one per edge and in
\* order, and it holds no axis, node or axis-label primitive.
C30_PartialRenderStays ==
    pc = "done" =>
        \A s \in Curveless(data) :
            LET before == VisitedBefore(data, s)
                n == SumOver(before, [x \in before |-> IdsLength(GroupOf(data, x))])
            IN  /\ threw
                /\ Len(svg) = n
                /\ \A x \in before : \A j \in 0..(IdsLength(GroupOf(data, x)) - 1) :
                       /\ svg[j + 1].datum = Curve(<<x, j>>)
                       /\ GetAttr(svg[j + 1], "class") = Str("edge")
                /\ \A class \in {"axis", "node", "axis-label"} : CountOf(svg, class) = 0

\* the second group lacks its curves: the MaxEdges edges of the first stay,
\* and neither of the two axes is drawn
C30_Witness ==
    /\ pc = "done"
    /\ Curveless(data) = {SecondSlot}
    /\ threw
    /\ CountOf(svg, "edge") = MaxEdges
    /\ Len(svg) = MaxEdges
    /\ TotalNodes(data) > 1
    /\ LabelsAsked(opts)

====
